---- MODULE Spec2Model ----
(***************************************************************************)
(* Model of the document-recreation pipeline of stratagem.py: one run of   *)
(* main() over a filesystem, with the overlay composer, the watermark      *)
(* composer, the two layer compositors, the metadata synthesizer, the      *)
(* flatten pass and the cleanup of temporary artifacts.                    *)
(*                                                                         *)
(* Conventions.  A text is a sequence of one-character strings.  Python's  *)
(* None and the empty list are both the empty sequence << >>.  Font sizes  *)
(* and lengths are integers in tenths of a point (10.5pt = 105).  A path   *)
(* is a directory and the file name split at its dots.                     *)
(***************************************************************************)
EXTENDS Integers, Sequences, FiniteSets, TLC

\* ------------------------------------------------------------------ bounds

\* Largest number of pages of a template document.
MaxPages == 3

\* Largest number of os.remove calls of one run that the environment lets fail.
MaxRemoveFailures == 1

\* ------------------------------------------------------------------ paths

None == << >>

Path(dir, name) == [dir |-> dir, name |-> name]

\* os.path.splitext(p)[0]: the path without its last extension.
splitext0(p) ==
    IF Len(p.name) > 1 THEN [p EXCEPT !.name = SubSeq(@, 1, Len(@) - 1)] ELSE p

\* p + ".a.b": string concatenation of extensions onto a path.
PlusExt(p, exts) == [p EXCEPT !.name = @ \o exts]

\* args.output.replace(".pdf", "_flat.pdf"): every ".pdf" of the name.
FlatPath(p) ==
    [p EXCEPT !.name =
        [j \in 1..Len(@) |->
            IF j < Len(@) /\ @[j + 1] = "pdf" THEN @[j] \o "_flat" ELSE @[j]]]

\* overlay_path = os.path.splitext(args.output)[0] + ".overlay.pdf"
OverlayPath(output) == PlusExt(splitext0(output), <<"overlay", "pdf">>)

\* f"{os.path.splitext(base)[0]}.wm_p{k}.pdf", k the 1-based page number
WmPath(base, k) == PlusExt(splitext0(base), <<"wm_p" \o ToString(k), "pdf">>)

\* tempfile.NamedTemporaryFile(delete=False, suffix=".png"): the k-th fresh
\* name of the run, in the system's temporary directory.
_tmp_png_path(k) == Path("/tmp", <<"tmp" \o ToString(k), "png">>)

\* ------------------------------------------------------------------ documents

Layer(src, k) == [src |-> src, page |-> k]

Page(layers, annots) == [layers |-> layers, annots |-> annots]

File(kind, pages, info, xmp) == [kind |-> kind, pages |-> pages, info |-> info, xmp |-> xmp]

NoInfo == [k \in {} |-> ""]

\* merge_page with page2's content drawn beneath the receiver's.
merge_page_Beneath(base, page2) ==
    Page(page2.layers \o base.layers, base.annots \cup page2.annots)

\* PageObject.merge_page(page2): page2's content is drawn after (above) the
\* receiver's content and its annotations are added to the receiver's.
merge_page(base, page2) ==
    Page(base.layers \o page2.layers, base.annots \cup page2.annots)

\* strip_annots leaving /Annots where it is.
strip_annots_Kept(page) == page

\* strip_annots(page): del page["/Annots"]
strip_annots(page) == Page(page.layers, {})

\* ------------------------------------------------------------------ inputs

roles ==
    [name |-> "f1_01[0]", business |-> "f1_02[0]",
     chk_individual |-> "c1_1[0]", chk_c_corp |-> "c1_1[1]", chk_s_corp |-> "c1_1[2]",
     chk_partnership |-> "c1_1[3]", chk_trust_estate |-> "c1_1[4]", chk_llc |-> "c1_1[5]",
     llc_code |-> "f1_03[0]", chk_other |-> "c1_1[6]", other_text |-> "f1_04[0]",
     chk_3b |-> "c1_2[0]", exempt |-> "f1_05[0]", fatca |-> "f1_06[0]",
     addr1 |-> "f1_07[0]", addr2 |-> "f1_08[0]",
     requester |-> "f1_09[0]", accounts |-> "f1_10[0]",
     ssn_1 |-> "f1_11[0]", ssn_2 |-> "f1_12[0]", ssn_3 |-> "f1_13[0]",
     ein_1 |-> "f1_14[0]", ein_2 |-> "f1_15[0]"]

AllWidgets == {roles[k] : k \in DOMAIN roles}

\* The widget annotations a template has on its first page.
WidgetSets ==
    { AllWidgets, {}, AllWidgets \ {"f1_01[0]"}, AllWidgets \ {"f1_12[0]", "c1_1[5]"} }

\* Page k of a template: its own content, the form widgets on page 1 and a
\* link annotation on every even page.
TemplatePage(k, widgets) ==
    Page(<<Layer("tpl", k)>>,
         IF k = 1 THEN widgets ELSE IF k % 2 = 0 THEN {"link" \o ToString(k)} ELSE {})

TemplateFile(n, widgets) ==
    File("template", [k \in 1..n |-> TemplatePage(k, widgets)],
         [k \in {"/Title", "/CreationDate"} |-> "tpl"], NoInfo)

TemplatePath == Path(".", <<"w9", "pdf">>)

\* --output: a fresh name, the template's own name, and the name the bypass
\* compositor gives the watermark layer of page 1.
OutputPaths ==
    { Path(".", <<"out", "pdf">>), TemplatePath, WmPath(TemplatePath, 1) }

\* A file of the working directory that the run did not create.
StrayPng == Path(".", <<"scan", "overlay", "png">>)

\* What load_json finds at a configuration path.
Missing == [state |-> "missing"]
Loaded(v) == [state |-> "ok", value |-> v]

WmCfg(pages_kind, pages_str, pages_list, bad_item) ==
    [pages_kind |-> pages_kind, pages_str |-> pages_str, pages_list |-> pages_list,
     bad_item |-> bad_item]

\* An entry of a "pages" list as json.load gives it: an integer, a float in
\* tenths, or a string.
PInt(n) == [kind |-> "int", n |-> n]
PFloat(t) == [kind |-> "float", tenths |-> t]
PStr(t) == [kind |-> "str", text |-> t]

\* Watermark configurations: "pages" a string or a list of page numbers; one
\* configuration has an item whose x is not a number.
WmConfigs ==
    { WmCfg("str", <<"a","l","l">>, << >>, FALSE),
      WmCfg("str", <<"A","L","L">>, << >>, FALSE),
      WmCfg("list", << >>, <<PInt(1)>>, FALSE),
      WmCfg("list", << >>, <<PInt(2)>>, TRUE),
      WmCfg("list", << >>, <<PInt(3), PInt(1)>>, FALSE),
      WmCfg("absent", << >>, << >>, FALSE) }

\* ------------------------------------------------------------------ texts

UpperChars ==
    <<"A","B","C","D","E","F","G","H","I","J","K","L","M",
      "N","O","P","Q","R","S","T","U","V","W","X","Y","Z">>

LowerChars ==
    <<"a","b","c","d","e","f","g","h","i","j","k","l","m",
      "n","o","p","q","r","s","t","u","v","w","x","y","z">>

Digits == {"0","1","2","3","4","5","6","7","8","9"}

IndexIn(ch, chars) == CHOOSE j \in 1..Len(chars) : chars[j] = ch

\* A lower() that leaves capitals as they are.
lower_Identity(t) == t

\* str.lower() and str.upper()
lower(t) ==
    [j \in 1..Len(t) |->
        IF \E m \in 1..Len(UpperChars) : UpperChars[m] = t[j]
        THEN LowerChars[IndexIn(t[j], UpperChars)] ELSE t[j]]

upper(t) ==
    [j \in 1..Len(t) |->
        IF \E m \in 1..Len(LowerChars) : LowerChars[m] = t[j]
        THEN UpperChars[IndexIn(t[j], LowerChars)] ELSE t[j]]

IsSpace(ch) == ch \in {" ", "\n", "\t"}

RECURSIVE lstrip(_)
lstrip(t) == IF t # << >> /\ IsSpace(Head(t)) THEN lstrip(Tail(t)) ELSE t

RECURSIVE rstrip(_)
rstrip(t) ==
    IF t # << >> /\ IsSpace(t[Len(t)]) THEN rstrip(SubSeq(t, 1, Len(t) - 1)) ELSE t

\* str.strip()
strip(t) == rstrip(lstrip(t))

\* norm(s) = (s or "").strip()
norm(t) == strip(t)

\* re.sub(r"\D", "", s or "")
OnlyDigits(t) == SelectSeq(t, LAMBDA ch : ch \in Digits)

\* str.startswith
startswith(t, prefix) ==
    Len(t) >= Len(prefix) /\ SubSeq(t, 1, Len(prefix)) = prefix

split_ssn(ssn) ==
    LET digits == OnlyDigits(ssn) IN
    IF Len(digits) = 9
    THEN <<SubSeq(digits, 1, 3), SubSeq(digits, 4, 5), SubSeq(digits, 6, 9)>>
    ELSE << << >>, << >>, << >> >>

split_ein(ein) ==
    LET digits == OnlyDigits(ein) IN
    IF Len(digits) = 9
    THEN <<SubSeq(digits, 1, 2), SubSeq(digits, 3, 9)>>
    ELSE << << >>, << >> >>

\* data.get(key, ""), and norm(data.get(key)) where the key is absent
Get(data, key) == IF key \in DOMAIN data THEN data[key] ELSE << >>

\* ------------------------------------------------------------------ vector drawing helpers

FONT_MAIN == "Helvetica"
FONT_BOLD == "Helvetica-Bold"
CHECK_GLYPH == <<"v">>

Max(a, b) == IF a >= b THEN a ELSE b
Min(a, b) == IF a <= b THEN a ELSE b

\* One drawing operation put on a canvas (or into a bitmap).
Item(op, role, text, font, size, pos) ==
    [op |-> op, role |-> role, text |-> text, font |-> font, size |-> size, pos |-> pos]

\* The width coefficient of a text, in tenths of an em: every glyph is half
\* an em wide, so that stringWidth(text, font, size) = coef * size / 10.
Coef(text) == 5 * Len(text)

\* stringWidth(text, font, size) > w, for a text of width coefficient coef
Overflows(coef, size, w) == coef * size > 10 * w

\* while size >= min_size and stringWidth(text, font, size) > w: size -= 0.2
RECURSIVE FitLoop(_, _, _, _)
FitLoop(coef, w, size, min_size) ==
    IF size >= min_size /\ Overflows(coef, size, w)
    THEN FitLoop(coef, w, size - 2, min_size)
    ELSE size

\* The fit without its last line, size = max(size, min_size).
FitSingleLine_NoClamp(coef, rect, max_size, min_size, inset) ==
    FitLoop(coef, rect[3] - rect[1] - 2 * inset, max_size, min_size)

\* The size draw_text_fit_vec sets the font to.
FitSingleLine(coef, rect, max_size, min_size, inset) ==
    LET w == rect[3] - rect[1] - 2 * inset
        size == FitLoop(coef, w, max_size, min_size)
    IN  Max(size, min_size)

\* draw_text_fit_vec(c, text, rect, font, max_size): the operations it puts on
\* the canvas (min_size 7.0, inset 2.0, vcenter).  pos is (x, 2*y).
draw_text_fit_vec(role, text0, rect, font, max_size) ==
    LET text == norm(text0) IN
    IF text = << >> \/ rect = None THEN << >>
    ELSE LET size == FitSingleLine(Coef(text), rect, max_size, 70, 20)
         IN  << Item("string", role, text, font, size,
                     <<rect[1] + 20, 2 * rect[2] + (rect[4] - rect[2] - size) + 10>>) >>

\* str.split(sep) for a one-character separator
RECURSIVE SplitOn(_, _)
SplitOn(t, sep) ==
    IF \A j \in 1..Len(t) : t[j] # sep THEN <<t>>
    ELSE LET j == CHOOSE m \in 1..Len(t) :
                      t[m] = sep /\ \A q \in 1..(m - 1) : t[q] # sep
         IN  <<SubSeq(t, 1, j - 1)>> \o SplitOn(SubSeq(t, j + 1, Len(t)), sep)

\* str.splitlines()
splitlines(t) ==
    IF t = << >> THEN << >>
    ELSE LET parts == SplitOn(t, "\n") IN
         IF parts[Len(parts)] = << >> THEN SubSeq(parts, 1, Len(parts) - 1) ELSE parts

\* The word loop with trial = cur + " " + w, not stripped.
RECURSIVE VecWrapWords_NoStrip(_, _, _, _)
VecWrapWords_NoStrip(words, st, size, max_w) ==
    IF words = << >> THEN st
    ELSE LET w == Head(words)
             cur == st[2]
             trial == cur \o <<" ">> \o w
         IN  IF ~Overflows(Coef(trial), size, max_w)
             THEN VecWrapWords_NoStrip(Tail(words), <<st[1], trial>>, size, max_w)
             ELSE VecWrapWords_NoStrip(Tail(words),
                               <<IF cur # << >> THEN Append(st[1], cur) ELSE st[1], w>>,
                               size, max_w)

\* The word loop of draw_multiline_fit_vec over one raw line: st is
\* <<lines so far, cur>>.
RECURSIVE VecWrapWords(_, _, _, _)
VecWrapWords(words, st, size, max_w) ==
    IF words = << >> THEN st
    ELSE LET w == Head(words)
             cur == st[2]
             trial == strip(cur \o <<" ">> \o w)
         IN  IF ~Overflows(Coef(trial), size, max_w)
             THEN VecWrapWords(Tail(words), <<st[1], trial>>, size, max_w)
             ELSE VecWrapWords(Tail(words),
                               <<IF cur # << >> THEN Append(st[1], cur) ELSE st[1], w>>,
                               size, max_w)

\* The loop over text.splitlines() of draw_multiline_fit_vec.
RECURSIVE VecWrapLines(_, _, _, _)
VecWrapLines(raws, lines, size, max_w) ==
    IF raws = << >> THEN lines
    ELSE LET st == VecWrapWords(SplitOn(Head(raws), " "), <<lines, << >> >>, size, max_w)
         IN  VecWrapLines(Tail(raws),
                          IF st[2] # << >> THEN Append(st[1], st[2]) ELSE st[1],
                          size, max_w)

VecWrap(text, size, max_w) == VecWrapLines(splitlines(text), << >>, size, max_w)

\* while size >= min_size: wrap; if it fits the height: break; size -= 0.2.
\* The result is <<size, lines>> as they stand when the loop is left; lines
\* is the list of the last wrap made.
RECURSIVE MultiFitLoop(_, _, _, _, _, _)
MultiFitLoop(text, max_w, height, size, min_size, prev) ==
    IF size >= min_size
    THEN LET lines == VecWrap(text, size, max_w) IN
         IF Len(lines) * size * 12 <= 10 * height
         THEN <<size, lines>>
         ELSE MultiFitLoop(text, max_w, height, size - 2, min_size, lines)
    ELSE <<size, prev>>

\* The lines the drawing loop of draw_multiline_fit_vec reaches: it stops
\* after the first line that leaves y below y0 + inset.  y10 is 10*y.
RECURSIVE MultiDrawn(_, _, _, _)
MultiDrawn(lines, y10, size, floor10) ==
    IF lines = << >> THEN << >>
    ELSE IF y10 - 12 * size < floor10 THEN <<Head(lines)>>
         ELSE <<Head(lines)>> \o MultiDrawn(Tail(lines), y10 - 12 * size, size, floor10)

\* draw_multiline_fit_vec(c, text, rect, font, max_size) (min_size 7.5,
\* inset 2.0, leading 1.2): one operation per line drawn; pos is (x, 10*y).
draw_multiline_fit_vec(role, text0, rect, font, max_size) ==
    LET text == norm(text0) IN
    IF text = << >> \/ rect = None THEN << >>
    ELSE LET fit == MultiFitLoop(text, rect[3] - rect[1] - 40, rect[4] - rect[2] - 40,
                                 max_size, 75, << >>)
             size == fit[1]
             top10 == 10 * (rect[4] - 20 - size)
             drawn == MultiDrawn(fit[2], top10, size, 10 * (rect[2] + 20))
         IN  [j \in 1..Len(drawn) |->
                 Item("string", role, drawn[j], font, size,
                      <<rect[1] + 20, top10 - (j - 1) * 12 * size>>)]

\* draw_check_vec(c, rect, font=FONT_BOLD): pos is twice the centre.
draw_check_vec(role, rect, font) ==
    IF rect = None THEN << >>
    ELSE << Item("check", role, CHECK_GLYPH, font, 95,
                 <<rect[1] + rect[3], rect[2] + rect[4]>>) >>

\* while size > 6.5 and stringWidth("8", font, size) > cell_w - 1.0: size -= 0.2
RECURSIVE DigitFitLoop(_, _, _)
DigitFitLoop(width, slots, size) ==
    IF size > 65 /\ 5 * size * slots > 10 * width - 100 * slots
    THEN DigitFitLoop(width, slots, size - 2)
    ELSE size

\* The vector digit grid over all of digits, not digits[:slots].
draw_digits_in_cells_vec_All(role, text, rect, slots, font, max_size) ==
    LET digits == OnlyDigits(text) IN
    IF digits = << >> \/ rect = None THEN << >>
    ELSE LET w == rect[3] - rect[1] - 40
             size == DigitFitLoop(w, slots, max_size)
         IN  [j \in 1..Len(digits) |->
                 Item("digit", role, <<digits[j]>>, font, size,
                      <<2 * slots * (rect[1] + 20) + w * (2 * (j - 1) + 1),
                        2 * rect[2] + (rect[4] - rect[2] - size) + 10>>)]

\* draw_digits_in_cells_vec(c, text, rect, slots, font, max_size) (inset
\* 2.0): one operation per digit of digits[:slots], drawn by
\* drawCentredString at (cx, y); pos is <<2 * slots * cx, 2 * y>>, so that
\* both are whole numbers of tenths of a point.
draw_digits_in_cells_vec(role, text, rect, slots, font, max_size) ==
    LET digits == OnlyDigits(text) IN
    IF digits = << >> \/ rect = None THEN << >>
    ELSE LET w == rect[3] - rect[1] - 40
             size == DigitFitLoop(w, slots, max_size)
             shown == SubSeq(digits, 1, Min(slots, Len(digits)))
         IN  [j \in 1..Len(shown) |->
                 Item("digit", role, <<shown[j]>>, font, size,
                      <<2 * slots * (rect[1] + 20) + w * (2 * (j - 1) + 1),
                        2 * rect[2] + (rect[4] - rect[2] - size) + 10>>)]

\* ------------------------------------------------------------------ raster text helpers

\* W = max(1, int(w_pt * scale)), scale 3, for a length in tenths of a point
Pixels(len10) == Max(1, (3 * len10) \div 10)

\* max(6, int(font_px * scale / 0.75)) with font_px = int(max_size)
FontPx(max_size) == Max(6, (max_size \div 10) * 4)

\* _draw_singleline_to_png(text, w_pt, h_pt, font_px): what is drawn into
\* the bitmap (align left, vcenter); a glyph is half its pixel size wide.
_draw_singleline_to_png(role, text0, w10, h10, max_size) ==
    LET text == norm(text0)
        P == FontPx(max_size)
    IN  IF text = << >> THEN << >>
        ELSE << Item("raster", role, text, "DejaVuSans.ttf", P,
                     <<0, (Pixels(h10) - P) \div 2>>) >>

\* The word loop of _wrap_lines over one raw line: st is <<lines, cur>>.
RECURSIVE PilWrapWords(_, _, _, _)
PilWrapWords(words, st, P, max_w) ==
    IF words = << >> THEN st
    ELSE LET w == Head(words)
             cur == st[2]
             trial == strip(cur \o <<" ">> \o w)
         IN  IF Len(trial) * P <= 2 * max_w \/ cur = << >>
             THEN PilWrapWords(Tail(words), <<st[1], trial>>, P, max_w)
             ELSE PilWrapWords(Tail(words), <<Append(st[1], cur), w>>, P, max_w)

RECURSIVE PilWrapLines(_, _, _, _)
PilWrapLines(raws, lines, P, max_w) ==
    IF raws = << >> THEN lines
    ELSE LET st == PilWrapWords(SplitOn(Head(raws), " "), <<lines, << >> >>, P, max_w)
         IN  PilWrapLines(Tail(raws),
                          IF st[2] # << >> THEN Append(st[1], st[2]) ELSE st[1],
                          P, max_w)

\* _wrap_lines(draw, text, font, max_w)
_wrap_lines(text, P, max_w) == PilWrapLines(splitlines(text), << >>, P, max_w)

\* The lines the drawing loop of _draw_multiline_to_png reaches.
RECURSIVE PilDrawn(_, _, _, _)
PilDrawn(lines, y, lh, H) ==
    IF lines = << >> THEN << >>
    ELSE IF y + lh > H - lh THEN <<Head(lines)>>
         ELSE <<Head(lines)>> \o PilDrawn(Tail(lines), y + lh, lh, H)

\* _draw_multiline_to_png(text, w_pt, h_pt, font_px) (leading 1.2)
_draw_multiline_to_png(role, text0, w10, h10, max_size) ==
    LET P == FontPx(max_size)
        lines == _wrap_lines(norm(text0), P, Pixels(w10) - 6)
        lh == (12 * P) \div 10
        drawn == PilDrawn(lines, 2, lh, Pixels(h10))
    IN  [j \in 1..Len(drawn) |->
            Item("raster", role, drawn[j], "DejaVuSans.ttf", P, <<3, 2 + (j - 1) * lh>>)]

\* _draw_digits_grid_to_png(digits, w_pt, h_pt, slots, font_px): one
\* operation per digit of digits[:slots], drawn by draw.text at
\* (cx - tw // 2, y - th // 2); pos is that corner, in pixels.  A glyph is
\* half its pixel size wide and its pixel size high.
_draw_digits_grid_to_png(role, text, w10, h10, slots, max_size) ==
    LET digits == OnlyDigits(text)
        shown == SubSeq(digits, 1, Min(slots, Len(digits)))
        W == Pixels(w10)
        H == Pixels(h10)
        P == FontPx(max_size)
        inset == 6
    IN  [j \in 1..Len(shown) |->
            Item("raster", role, <<shown[j]>>, "DejaVuSans.ttf", P,
                 <<((2 * slots * inset + (W - 2 * inset) * (2 * (j - 1) + 1)) \div (2 * slots))
                      - ((P \div 2) \div 2),
                   (H \div 2) - (P \div 2)>>)]

\* ------------------------------------------------------------------ font helpers

\* register_fonts_for_overlay(): <<main_font, warp_fonts, bold_font>>; ttf
\* tells whether DejaVuSans.ttf can be registered.
register_fonts_for_overlay(ttf) ==
    IF ttf
    THEN <<"DejaVuSans", <<"DejaVuSans", "WarpA", "WarpB">>, FONT_BOLD>>
    ELSE <<"Helvetica", <<"Helvetica", "Courier", "Times-Roman">>, "Helvetica-Bold">>

\* FontCycler.__init__
FontCycler(fonts) == [fonts |-> IF fonts = << >> THEN <<FONT_MAIN>> ELSE fonts, i |-> 0]

\* FontCycler.next staying on the last font once the pool is used up.
CyclerFont_NoWrap(cy) == cy.fonts[IF cy.i < Len(cy.fonts) THEN cy.i + 1 ELSE Len(cy.fonts)]

\* FontCycler.next: the font returned, and the cycler afterwards
CyclerFont(cy) == cy.fonts[(cy.i % Len(cy.fonts)) + 1]
CyclerStep(cy) == [cy EXCEPT !.i = @ + 1]

\* ------------------------------------------------------------------ data profiles

ALIAS_INDIVIDUAL ==
    { <<"i","n","d","i","v","i","d","u","a","l">>,
      <<"s","o","l","e"," ","p","r","o","p","r","i","e","t","o","r">>,
      <<"s","o","l","e","_","p","r","o","p","r","i","e","t","o","r">> }
ALIAS_C_CORP ==
    { <<"c","_","c","o","r","p">>,
      <<"c"," ","c","o","r","p">>,
      <<"c"," ","c","o","r","p","o","r","a","t","i","o","n">>,
      <<"c">> }
ALIAS_S_CORP ==
    { <<"s","_","c","o","r","p">>,
      <<"s"," ","c","o","r","p">>,
      <<"s"," ","c","o","r","p","o","r","a","t","i","o","n">>,
      <<"s">> }
ALIAS_PARTNERSHIP ==
    { <<"p","a","r","t","n","e","r","s","h","i","p">>,
      <<"p">> }
ALIAS_TRUST_ESTATE ==
    { <<"t","r","u","s","t","_","e","s","t","a","t","e">>,
      <<"t","r","u","s","t">>,
      <<"e","s","t","a","t","e">> }

\* today_str()
Today == <<"2","0","2","6","-","1","1","-","0","1">>

ProfileNameOnly == [name |-> <<"A","n","n">>]

ProfileLlc ==
    [name |-> <<" ","B","o"," ">>,
     business_name |-> <<"B","o"," ","L","L","C">>,
     classification |-> <<"L","L","C">>,
     city |-> <<"T","r","o","y">>, state |-> <<"N","Y">>, zip |-> <<"1","2","1","8","0">>,
     requester_info |-> <<"A","c","m","e"," ","C","o","\n","1"," ","M","a","i","n"," ","S","t">>,
     ssn |-> <<"1","2","3","-","4","5","-","6","7","8","9">>]

ProfileOther ==
    [classification |-> <<"O","t","h","e","r">>,
     other_text |-> <<"c","o","o","p">>,
     ssn |-> <<"1","2","3","-","4","5","-","6","7","8","9">>,
     ein |-> <<"1","2","-","3","4","5","6","7","8","9">>,
     line3b_foreign_flowthrough |-> TRUE,
     signature |-> <<"B","."," ","D","o","e">>]

Profiles == { ProfileNameOnly, ProfileLlc, ProfileOther }

\* ------------------------------------------------------------------ overlay composer

\* The rectangle of a widget annotation, (x0, y0, x1, y1).
RectOf(widget) == <<360, 1000, 2360, 1400>>

\* r(key): rects.get(roles.get(key)), for the widgets of page 1
r(widgets, key) ==
    IF key \in DOMAIN roles /\ roles[key] \in widgets THEN RectOf(roles[key]) ELSE None

Op(kind, role, text, slots, max_size) ==
    [kind |-> kind, role |-> role, text |-> text, slots |-> slots, max_size |-> max_size]

\* ", ".join([x for x in [city, state] if x]), then " " + zip, stripped
Combined(data) ==
    LET city == norm(Get(data, "city"))
        state == norm(Get(data, "state"))
        zipc == norm(Get(data, "zip"))
        joined == IF city # << >> /\ state # << >> THEN city \o <<",", " ">> \o state
                  ELSE city \o state
    IN  IF zipc # << >> THEN strip(joined \o <<" ">> \o zipc) ELSE joined

\* The "Basics" calls of compose_overlay_page1, in order.
BasicOps(data) ==
    << Op("text", "name", Get(data, "name"), 0, 110),
       Op("text", "business", Get(data, "business_name"), 0, 110),
       Op("text", "exempt", Get(data, "exempt_payee_code"), 0, 100),
       Op("text", "fatca", Get(data, "fatca_code"), 0, 100),
       Op("text", "addr1", Get(data, "address"), 0, 105),
       Op("text", "addr2", Combined(data), 0, 105),
       Op("multi", "requester", Get(data, "requester_info"), 0, 95),
       Op("text", "accounts", Get(data, "account_numbers"), 0, 100) >>

\* The "Classification" block: the checkbox chosen and the text that goes
\* with it.
ClassificationOps(data) ==
    LET cls == strip(lower(Get(data, "classification")))
        code == upper(strip(Get(data, "llc_tax_class")))
        chosen ==
            IF cls \in ALIAS_INDIVIDUAL THEN << Op("check", "chk_individual", << >>, 0, 0) >>
            ELSE IF cls \in ALIAS_C_CORP THEN << Op("check", "chk_c_corp", << >>, 0, 0) >>
            ELSE IF cls \in ALIAS_S_CORP THEN << Op("check", "chk_s_corp", << >>, 0, 0) >>
            ELSE IF cls \in ALIAS_PARTNERSHIP THEN << Op("check", "chk_partnership", << >>, 0, 0) >>
            ELSE IF cls \in ALIAS_TRUST_ESTATE THEN << Op("check", "chk_trust_estate", << >>, 0, 0) >>
            ELSE IF startswith(cls, <<"l","l","c">>)
                 THEN << Op("check", "chk_llc", << >>, 0, 0),
                         Op("text", "llc_code", IF code # << >> THEN code ELSE <<"C">>, 0, 100) >>
            ELSE IF cls = <<"o","t","h","e","r">>
                 THEN << Op("check", "chk_other", << >>, 0, 0),
                         Op("text", "other_text", norm(Get(data, "other_text")), 0, 100) >>
            ELSE << >>
    IN  chosen \o
        (IF "line3b_foreign_flowthrough" \in DOMAIN data /\ data["line3b_foreign_flowthrough"]
         THEN << Op("check", "chk_3b", << >>, 0, 0) >> ELSE << >>)

\* The "TIN" block with the SSN drawn whenever there is one.
TinOps_SsnFirst(data) ==
    LET ssn == norm(Get(data, "ssn"))
        ein == norm(Get(data, "ein"))
    IN  IF ssn # << >>
        THEN LET g == split_ssn(ssn) IN
             << Op("digits", "ssn_1", g[1], 3, 120),
                Op("digits", "ssn_2", g[2], 2, 120),
                Op("digits", "ssn_3", g[3], 4, 120) >>
        ELSE IF ein # << >>
        THEN LET g == split_ein(ein) IN
             << Op("digits", "ein_1", g[1], 2, 120),
                Op("digits", "ein_2", g[2], 7, 120) >>
        ELSE << >>

\* The "TIN" block.
TinOps(data) ==
    LET ssn == norm(Get(data, "ssn"))
        ein == norm(Get(data, "ein"))
    IN  IF ssn # << >> /\ ein = << >>
        THEN LET g == split_ssn(ssn) IN
             << Op("digits", "ssn_1", g[1], 3, 120),
                Op("digits", "ssn_2", g[2], 2, 120),
                Op("digits", "ssn_3", g[3], 4, 120) >>
        ELSE IF ein # << >>
        THEN LET g == split_ein(ein) IN
             << Op("digits", "ein_1", g[1], 2, 120),
                Op("digits", "ein_2", g[2], 7, 120) >>
        ELSE << >>

\* The "Signature & Date" block, at fixed page coordinates.
SIG_X == 1150
SIG_Y == 1970
DATE_X == 4700
DATE_Y == 1970

\* The signature block without the date of the day for a missing date.
SignatureOps_NoDefault(data) ==
    << Op("sig", "signature", norm(Get(data, "signature")), 0, 110),
       Op("sig", "signature_date", norm(Get(data, "signature_date")), 0, 110) >>

SignatureOps(data) ==
    LET date == norm(Get(data, "signature_date")) IN
    << Op("sig", "signature", norm(Get(data, "signature")), 0, 110),
       Op("sig", "signature_date", IF date # << >> THEN date ELSE Today, 0, 110) >>

SigRect(role) ==
    IF role = "signature" THEN <<SIG_X, SIG_Y - 20, SIG_X + 2200, SIG_Y + 160>>
    ELSE <<DATE_X, DATE_Y - 20, DATE_X + 1200, DATE_Y + 160>>

\* Every drawing call compose_overlay_page1 makes for a data record, in order.
DrawOps(data) == BasicOps(data) \o ClassificationOps(data) \o TinOps(data) \o SignatureOps(data)

\* The state of one call of compose_overlay_page1: the canvas, the bitmap
\* files written, the list tmp_images, the cycler, and whether a call raised.
Composer(fonts) ==
    [canvas |-> << >>, pngs |-> << >>, tmp_images |-> << >>,
     cycler |-> FontCycler(fonts), raised |-> FALSE]

\* What a bitmap helper draws for a call.
RasterOf(op, rect) ==
    LET w10 == rect[3] - rect[1]
        h10 == rect[4] - rect[2]
    IN  IF op.kind = "multi"
        THEN _draw_multiline_to_png(op.role, op.text, w10, h10, op.max_size)
        ELSE IF op.kind = "digits"
        THEN _draw_digits_grid_to_png(op.role, op.text, w10, h10, op.slots, op.max_size)
        ELSE _draw_singleline_to_png(op.role, op.text, w10, h10, op.max_size)

\* What a vector helper puts on the canvas for a call.
VectorOf(op, rect, font) ==
    IF op.kind = "multi"
    THEN draw_multiline_fit_vec(op.role, op.text, rect, font, op.max_size)
    ELSE IF op.kind = "digits"
    THEN draw_digits_in_cells_vec(op.role, op.text, rect, op.slots, font, op.max_size)
    ELSE draw_text_fit_vec(op.role, op.text, rect, font, op.max_size)

\* _save_png(img) followed by draw_image_into_canvas(c, png, rect)
WithPng(st, op, rect, listed) ==
    LET png == _tmp_png_path(Len(st.pngs) + 1) IN
    [st EXCEPT !.pngs = Append(@, [path |-> png, drawn |-> RasterOf(op, rect)]),
               !.tmp_images = IF listed THEN Append(@, png) ELSE @,
               !.canvas = Append(@, Item("image", op.role, png.name, "", 0, rect))]

\* draw_text / draw_multiline / draw_digits: in aggressive mode the closure
\* subscripts rect before any test of it, which raises TypeError on None.
DrawField(st, op, widgets, fontwarp_aggr) ==
    LET rect == r(widgets, op.role) IN
    IF fontwarp_aggr
    THEN IF rect = None THEN [st EXCEPT !.raised = TRUE]
         ELSE WithPng(st, op, rect, TRUE)
    ELSE [st EXCEPT !.canvas = @ \o VectorOf(op, rect, CyclerFont(st.cycler)),
                    !.cycler = CyclerStep(@)]

\* ck(role_key): draw_check_vec(c, r(role_key), font=FONT_BOLD)
DrawCheck(st, op, widgets) ==
    [st EXCEPT !.canvas = @ \o draw_check_vec(op.role, r(widgets, op.role), FONT_BOLD)]

\* Signature and date: two bitmaps in aggressive mode, not added to
\* tmp_images; two strings drawn with the cycler's next fonts otherwise.
DrawSig(st, op, fontwarp_aggr) ==
    IF fontwarp_aggr
    THEN WithPng(st, op, SigRect(op.role), FALSE)
    ELSE [st EXCEPT !.canvas = Append(@, Item("string", op.role, op.text, CyclerFont(st.cycler), 110,
                                              <<SigRect(op.role)[1], SigRect(op.role)[2] + 20>>)),
                    !.cycler = CyclerStep(@)]

DrawOne(st, op, widgets, fontwarp_aggr) ==
    IF st.raised THEN st
    ELSE IF op.kind = "check" THEN DrawCheck(st, op, widgets)
    ELSE IF op.kind = "sig" THEN DrawSig(st, op, fontwarp_aggr)
    ELSE DrawField(st, op, widgets, fontwarp_aggr)

RECURSIVE DrawAll(_, _, _, _)
DrawAll(st, ops, widgets, fontwarp_aggr) ==
    IF ops = << >> THEN st
    ELSE DrawAll(DrawOne(st, Head(ops), widgets, fontwarp_aggr), Tail(ops), widgets, fontwarp_aggr)

\* compose_overlay_page1(template_pdf, data, overlay_pdf, fontwarp,
\* fontwarp_aggr), up to c.save(): the composer's final state.
compose_overlay_page1(widgets, data, fontwarp, fontwarp_aggr, ttf) ==
    LET reg == register_fonts_for_overlay(ttf)
        fonts == IF fontwarp THEN reg[2] ELSE <<reg[1]>>
    IN  DrawAll(Composer(fonts), DrawOps(data), widgets, fontwarp_aggr)

\* ------------------------------------------------------------------ metadata helpers

\* The mapping of build_metadata_dict.
MetaKeyOf ==
    [title |-> "/Title", author |-> "/Author", subject |-> "/Subject",
     keywords |-> "/Keywords", creator |-> "/Creator", producer |-> "/Producer"]

\* An item of the metadata JSON object, in the order of the file: a string
\* value, a null, or the "custom" object, itself a list of items whose keys
\* are texts.
MetaStr(k, v) == [k |-> k, kind |-> "str", v |-> v]
MetaNull(k) == [k |-> k, kind |-> "none"]
MetaCustom(items) == [k |-> "custom", kind |-> "dict", items |-> items]
CustomItem(ck, cv) == [ck |-> ck, cv |-> cv]

\* The characters of a text as one string.
RECURSIVE Glue(_)
Glue(t) == IF t = << >> THEN "" ELSE Head(t) \o Glue(Tail(t))

\* "/" + str(ck).strip().replace(" ", "")
CustomKey(ck) == "/" \o Glue(SelectSeq(strip(ck), LAMBDA ch : ch # " "))

\* for ck, cv in v.items(): out[key] = str(cv)
RECURSIVE CustomInto(_, _)
CustomInto(out, items) ==
    IF items = << >> THEN out
    ELSE CustomInto([k \in DOMAIN out \cup {CustomKey(Head(items).ck)} |->
                        IF k = CustomKey(Head(items).ck) THEN Head(items).cv ELSE out[k]],
                    Tail(items))

\* The loop of build_metadata_dict over user_meta_raw.items().
RECURSIVE MetaInto(_, _)
MetaInto(out, raw) ==
    IF raw = << >> THEN out
    ELSE LET it == Head(raw) IN
         MetaInto(IF it.k = "custom" /\ it.kind = "dict"
                  THEN CustomInto(out, it.items)
                  ELSE IF it.k \in DOMAIN MetaKeyOf /\ it.kind = "str"
                  THEN [k \in DOMAIN out \cup {MetaKeyOf[it.k]} |->
                           IF k = MetaKeyOf[it.k] THEN it.v ELSE out[k]]
                  ELSE out,
                  Tail(raw))

\* build_metadata_dict(user_meta_raw)
build_metadata_dict(raw) == MetaInto([k \in {} |-> ""], raw)

\* pdf_date_now() at clock reading t
pdf_date_now(t) == "D:" \o ToString(t)

\* dict.setdefault(key, value)
setdefault(d, key, value) ==
    IF key \in DOMAIN d THEN d ELSE [k \in DOMAIN d \cup {key} |-> IF k = key THEN value ELSE d[k]]

\* An assignment that leaves a key already there as it is.
setitem_KeepExisting(d, key, value) ==
    IF key \in DOMAIN d THEN d ELSE [k \in DOMAIN d \cup {key} |-> IF k = key THEN value ELSE d[k]]

\* d[key] = value
setitem(d, key, value) ==
    [k \in DOMAIN d \cup {key} |-> IF k = key THEN value ELSE d[k]]

\* An update in which the keys of a win over those of b.
update_KeepFirst(a, b) ==
    [k \in DOMAIN a \cup DOMAIN b |-> IF k \in DOMAIN a THEN a[k] ELSE b[k]]

\* dict(a).update(b)
update(a, b) ==
    [k \in DOMAIN a \cup DOMAIN b |-> IF k \in DOMAIN b THEN b[k] ELSE a[k]]

finalize_info(template_info, user_info, t) ==
    LET out1 == update(template_info, user_info)
        out2 == setdefault(out1, "/Creator", "Designer 6.5")
        out3 == setdefault(out2, "/Producer", "Designer 6.5")
        out4 == setitem(out3, "/CreationDate", pdf_date_now(t))
    IN  setitem(out4, "/ModDate", out4["/CreationDate"])

\* ------------------------------------------------------------------ the run

VARIABLES
    args,   \* the parsed command line
    cfg,    \* what the configuration paths hold, and the fonts installed
    fs,     \* the filesystem: path -> file
    pc,     \* where main() is
    loc,    \* the local variables of main() and of the function it is in
    stdout, \* the lines printed
    hist,   \* what has happened: phases entered, files created and removed
    fit     \* inputs and result of one call of a helper made on its own

vars == <<args, cfg, fs, pc, loc, stdout, hist, fit>>

NotGiven == [state |-> "none"]

\* if x: for a configuration that is None or a non-empty dict
Truthy(c) == c.state = "ok"

NoFit == [coef |-> 0, width |-> 0, max_size |-> 0, min_size |-> 0, size |-> 0, done |-> FALSE]

ArgSets ==
    [template : {TemplatePath}, output : OutputPaths, w9bp : BOOLEAN,
     fontwarp : BOOLEAN, fontwarp_aggressive : BOOLEAN,
     clean : BOOLEAN, flatten : BOOLEAN]

MetaInputs == { NotGiven, Missing, Loaded(<<MetaStr("title", "B"), MetaStr("producer", "P")>>) }
WmInputs == { NotGiven, Missing } \cup { Loaded(w) : w \in WmConfigs }
DataInputs == { NotGiven } \cup { Loaded(d) : d \in Profiles }

InitLoc ==
    [user_meta |-> NoInfo, wm_cfg |-> NotGiven, data |-> NotGiven,
     canvas |-> << >>, tmp_pngs |-> << >>,
     reader |-> << >>, wm_pages_all |-> FALSE, wm_pages_set |-> {},
     base_page |-> << >>, writer |-> << >>, temp_files |-> << >>, i |-> 0,
     final_info |-> NoInfo, xmp |-> NoInfo, stripped |-> FALSE,
     queue |-> << >>, clock |-> 0, failure |-> ""]

InitHist ==
    [phases |-> << >>, pngs |-> {}, deleted |-> {}, stale |-> {},
     rm_attempted |-> {}, rm_failed |-> {}]

\* The files present when a run starts: the template and a bitmap the run
\* has nothing to do with.
InitFs(n, widgets) ==
    [p \in {TemplatePath, StrayPng} |->
        IF p = TemplatePath THEN TemplateFile(n, widgets) ELSE File("png", << >>, NoInfo, NoInfo)]

\* The inputs of a run.  The arguments that decide the page loop, the write
\* and the cleanup (mode, --clean, --flatten, --fontwarp-aggressive, the
\* watermark configuration, the output name, the number of pages) are
\* crossed in full; a run that varies another input (metadata file, data
\* profile, widgets of page 1, fonts installed, --fontwarp) has a one-page
\* template, no or an all-pages watermark, a fresh output name and no
\* flatten pass.
Plain(a, m, d, t, widgets) ==
    /\ m = NotGiven
    /\ a.w9bp \/ d = Loaded(ProfileNameOnly)
    /\ widgets = AllWidgets
    /\ ~t
    /\ ~a.fontwarp
    /\ a.w9bp => ~a.fontwarp_aggressive

Init ==
    /\ args \in ArgSets
    /\ \E m \in MetaInputs, w \in WmInputs, d \in DataInputs, t \in BOOLEAN,
          n \in 1..MaxPages, widgets \in WidgetSets :
          /\ cfg = [meta |-> m, wm |-> w, data |-> d, ttf |-> t]
          /\ fs = InitFs(n, widgets)
          \* --data, the widgets and the fonts are not looked at in bypass mode
          /\ args.w9bp => (d = NotGiven /\ ~t /\ widgets = AllWidgets)
          \* the fonts installed matter to vector text with font variance only
          /\ t => (args.fontwarp /\ ~args.fontwarp_aggressive)
          \* the bypass compositor alone names its layers after the template
          /\ ~args.w9bp => args.output # WmPath(TemplatePath, 1)
          /\ ~Plain(args, m, d, t, widgets) =>
                /\ n = 1
                /\ w \in {NotGiven, Loaded(WmCfg("str", <<"a","l","l">>, << >>, FALSE))}
                /\ args.output = Path(".", <<"out", "pdf">>)
                /\ ~args.flatten
    /\ pc = "resolve_meta"
    /\ loc = InitLoc
    /\ stdout = << >>
    /\ hist = InitHist
    /\ fit = NoFit

\* ---- helpers over the state

Event(ph, k) == [ph |-> ph, page |-> k]

Entered(h, evs) == [h EXCEPT !.phases = @ \o evs]

\* open(path, "wb") ... write: a whole-file write
WriteFile(f, p, file) == [q \in DOMAIN f \cup {p} |-> IF q = p THEN file ELSE f[q]]

\* os.remove(path)
RemoveFile(f, p) == [q \in DOMAIN f \ {p} |-> f[q]]

\* A failure that is recorded and passed over: the run goes on to the write.
Raise_Swallowed(why) ==
    /\ pc' = "write"
    /\ loc' = [loc EXCEPT !.failure = why]

\* An uncaught exception or SystemExit: the interpreter exits.
Raise(why) ==
    /\ pc' = "aborted"
    /\ loc' = [loc EXCEPT !.failure = why]

\* print(f"{tag}: {path}"): a line of the standard output
Line(tag, path) == [tag |-> tag, path |-> path]

\* A read of path p is stale when p was removed earlier in the run.
ReadOf(h, p) == [h EXCEPT !.stale = @ \cup ({p} \cap h.deleted)]

\* ---- main(): configuration

\* main, "Resolve metadata": load_json and build_metadata_dict
ResolveMeta ==
    /\ pc = "resolve_meta"
    /\ hist' = Entered(hist, <<Event("RESOLVE_CONFIG", 0)>>)
    /\ IF cfg.meta.state = "missing"
       THEN Raise("meta")
       ELSE /\ pc' = "resolve_wm"
            /\ loc' = [loc EXCEPT !.user_meta =
                          IF Truthy(cfg.meta) THEN build_metadata_dict(cfg.meta.value) ELSE NoInfo]
    /\ UNCHANGED <<args, cfg, fs, stdout, fit>>

\* main, "Resolve watermark", and in bypass mode the note that the font
\* options are ignored
ResolveWm ==
    /\ pc = "resolve_wm"
    /\ IF cfg.wm.state = "missing"
       THEN /\ Raise("wm")
            /\ stdout' = stdout
       ELSE /\ pc' = IF args.w9bp THEN "wm_only_open" ELSE "resolve_data"
            /\ loc' = [loc EXCEPT !.wm_cfg = cfg.wm]
            /\ stdout' = IF args.w9bp /\ (args.fontwarp \/ args.fontwarp_aggressive)
                          THEN Append(stdout, Line("[w9bp] Note", Path("", << >>)))
                          ELSE stdout
    /\ UNCHANGED <<args, cfg, fs, hist, fit>>

\* main, normal path: "resolve profile"
ResolveData ==
    /\ pc = "resolve_data"
    /\ IF ~Truthy(cfg.data)
       THEN Raise("data")
       ELSE /\ pc' = "compose_overlay"
            /\ loc' = [loc EXCEPT !.data = cfg.data]
    /\ UNCHANGED <<args, cfg, fs, stdout, hist, fit>>

\* The bitmap files a composer state has written.
RECURSIVE WritePngs(_, _)
WritePngs(f, pngs) ==
    IF pngs = << >> THEN f
    ELSE WritePngs(WriteFile(f, Head(pngs).path, File("png", Head(pngs).drawn, NoInfo, NoInfo)), Tail(pngs))

\* main: overlay_path, and the call of compose_overlay_page1
ComposeOverlay ==
    /\ pc = "compose_overlay"
    /\ LET tpl == fs[args.template]
           st == compose_overlay_page1(tpl.pages[1].annots, loc.data.value,
                                       args.fontwarp, args.fontwarp_aggressive, cfg.ttf)
           overlay_path == OverlayPath(args.output)
           withPngs == WritePngs(fs, st.pngs)
           h == [Entered(hist, <<Event("LOAD_TEMPLATE", 0), Event("COMPOSE_OVERLAY", 0)>>)
                    EXCEPT !.pngs = @ \cup {st.pngs[j].path : j \in 1..Len(st.pngs)}]
       IN  /\ hist' = h
           /\ IF st.raised
              THEN /\ Raise("TypeError")
                   /\ fs' = withPngs
              ELSE /\ fs' = WriteFile(withPngs, overlay_path,
                                      File("overlay", <<Page(<<Layer("overlay", 1)>>, {})>>, NoInfo, NoInfo))
                   /\ pc' = "layers_open"
                   /\ loc' = [loc EXCEPT !.canvas = st.canvas, !.tmp_pngs = st.tmp_images]
    /\ UNCHANGED <<args, cfg, stdout, fit>>

\* ---- watermark layers

\* The value of a text of decimal digits
RECURSIVE DecVal(_)
DecVal(t) ==
    IF t = << >> THEN 0
    ELSE 10 * DecVal(SubSeq(t, 1, Len(t) - 1)) + (CHOOSE d \in 0..9 : ToString(d) = t[Len(t)])

\* int(p) for an entry of the list: the integer itself, a float cut
\* towards zero, a string of digits with blanks around it; ok is FALSE for
\* the ValueError of any other string.
IntOf(p) ==
    IF p.kind = "int" THEN [ok |-> TRUE, n |-> p.n]
    ELSE IF p.kind = "float"
    THEN [ok |-> TRUE, n |-> IF p.tenths >= 0 THEN p.tenths \div 10 ELSE 0 - ((0 - p.tenths) \div 10)]
    ELSE LET d == strip(p.text) IN
         IF d # << >> /\ OnlyDigits(d) = d THEN [ok |-> TRUE, n |-> DecVal(d)]
         ELSE [ok |-> FALSE, n |-> 0]

\* A conversion that leaves out the entries int() rejects and keeps the rest.
IntSet_Lenient(pages_list) ==
    {IntOf(pages_list[j]).n : j \in {i \in 1..Len(pages_list) : IntOf(pages_list[i]).ok}}

\* try: {int(p) for p in pages_val} except Exception: set()
IntSet(pages_list) ==
    IF \A j \in 1..Len(pages_list) : IntOf(pages_list[j]).ok
    THEN {IntOf(pages_list[j]).n : j \in 1..Len(pages_list)}
    ELSE {}

\* The page selection of build_writer_with_layers and build_writer_wm_only:
\* <<wm_pages_all, wm_pages_set>>
PageSelection(wm_cfg) ==
    IF ~Truthy(wm_cfg) THEN <<FALSE, {}>>
    ELSE LET c == wm_cfg.value IN
         IF c.pages_kind = "str" /\ lower(c.pages_str) = <<"a","l","l">> THEN <<TRUE, {}>>
         ELSE IF c.pages_kind = "list" THEN <<FALSE, IntSet(c.pages_list)>>
         ELSE <<FALSE, {}>>

\* wm_cfg and (wm_pages_all or k in wm_pages_set), k the 1-based page number
Selected(k) == Truthy(loc.wm_cfg) /\ (loc.wm_pages_all \/ k \in loc.wm_pages_set)

\* The file compose_watermark_page saves for page k of the template.
WatermarkLayer(k) == File("wm", <<Page(<<Layer("wm", k)>>, {})>>, NoInfo, NoInfo)

\* compose_watermark_page(template_pdf, k - 1, wm_cfg, wm_out, visible),
\* temps.append(wm_out) and PdfReader(wm_out).pages[0].  float() of an item
\* field that is not a number raises ValueError before anything is saved.
Watermark(wm_out, k, next) ==
    LET h == Entered(hist, <<Event("LOAD_TEMPLATE", k), Event("COMPOSE_WATERMARKS", k)>>) IN
    IF loc.wm_cfg.value.bad_item
    THEN /\ Raise("ValueError")
         /\ hist' = h
         /\ fs' = fs
    ELSE /\ fs' = WriteFile(fs, wm_out, WatermarkLayer(k))
         /\ hist' = ReadOf(h, wm_out)
         /\ pc' = next
         /\ loc' = [loc EXCEPT !.temp_files = Append(@, wm_out),
                               !.base_page = <<fs'[wm_out].pages[1]>>]

\* ---- build_writer_with_layers

\* reader, writer, temps and the page selection
Layers_Open ==
    /\ pc = "layers_open"
    /\ pc' = "layers_p1"
    /\ loc' = [loc EXCEPT !.reader = fs[args.template].pages,
                          !.writer = << >>, !.temp_files = << >>, !.base_page = << >>,
                          !.wm_pages_all = PageSelection(loc.wm_cfg)[1],
                          !.wm_pages_set = PageSelection(loc.wm_cfg)[2]]
    /\ hist' = Entered(hist, <<Event("LOAD_TEMPLATE", 0)>>)
    /\ UNCHANGED <<args, cfg, fs, stdout, fit>>

\* Page 1: the optional watermark
Layers_Page1_Watermark ==
    /\ pc = "layers_p1"
    /\ Selected(1)
    /\ Watermark(PlusExt(splitext0(OverlayPath(args.output)), <<"wm_p1", "pdf">>), 1,
                 "layers_p1_merge")
    /\ UNCHANGED <<args, cfg, stdout, fit>>

\* temp_files = [overlay_path] + temp_files, once the writer is built
WithOverlay(temps) == <<OverlayPath(args.output)>> \o temps

\* Page 1: then the template, without its annotations, then the overlay
Layers_Page1_Merge ==
    /\ \/ pc = "layers_p1_merge"
       \/ pc = "layers_p1" /\ ~Selected(1)
    /\ LET tpl_page0 == loc.reader[1]
           base_page == IF loc.base_page = << >> THEN tpl_page0
                        ELSE merge_page(loc.base_page[1], tpl_page0)
           ov_page == fs[OverlayPath(args.output)].pages[1]
           merged == merge_page(strip_annots(base_page), ov_page)
           last == Len(loc.reader) = 1
       IN  /\ loc' = [loc EXCEPT !.writer = Append(@, merged), !.i = 1, !.base_page = << >>,
                                 !.temp_files = IF last THEN WithOverlay(@) ELSE @]
           /\ pc' = IF last THEN "metadata" ELSE "layers_pi"
    /\ hist' = ReadOf(Entered(hist, <<Event("MERGE", 1)>>), OverlayPath(args.output))
    /\ UNCHANGED <<args, cfg, fs, stdout, fit>>

\* Remaining pages: the watermark of page i + 1
Layers_PageI_Watermark ==
    /\ pc = "layers_pi"
    /\ Selected(loc.i + 1)
    /\ Watermark(WmPath(OverlayPath(args.output), loc.i + 1), loc.i + 1, "layers_pi_merge")
    /\ UNCHANGED <<args, cfg, stdout, fit>>

\* Remaining pages: the template page over its watermark, or copied
Layers_PageI_Merge ==
    /\ \/ pc = "layers_pi_merge"
       \/ pc = "layers_pi" /\ ~Selected(loc.i + 1)
    /\ LET tpl_page == loc.reader[loc.i + 1]
           page == IF loc.base_page = << >> THEN tpl_page
                   ELSE merge_page(loc.base_page[1], tpl_page)
           last == loc.i + 1 = Len(loc.reader)
       IN  /\ loc' = [loc EXCEPT !.writer = Append(@, page), !.i = @ + 1, !.base_page = << >>,
                                 !.temp_files = IF last THEN WithOverlay(@) ELSE @]
           /\ pc' = IF last THEN "metadata" ELSE "layers_pi"
    /\ hist' = Entered(hist, <<Event("MERGE", loc.i + 1)>>)
    /\ UNCHANGED <<args, cfg, fs, stdout, fit>>

\* ---- build_writer_wm_only

WmOnly_Open ==
    /\ pc = "wm_only_open"
    /\ pc' = "wm_only"
    /\ loc' = [loc EXCEPT !.reader = fs[args.template].pages,
                          !.writer = << >>, !.temp_files = << >>, !.base_page = << >>, !.i = 0,
                          !.wm_pages_all = PageSelection(loc.wm_cfg)[1],
                          !.wm_pages_set = PageSelection(loc.wm_cfg)[2]]
    /\ hist' = Entered(hist, <<Event("LOAD_TEMPLATE", 0)>>)
    /\ UNCHANGED <<args, cfg, fs, stdout, fit>>

WmOnly_Watermark ==
    /\ pc = "wm_only"
    /\ Selected(loc.i + 1)
    /\ Watermark(WmPath(args.template, loc.i + 1), loc.i + 1, "wm_only_merge")
    /\ UNCHANGED <<args, cfg, stdout, fit>>

WmOnly_Merge ==
    /\ \/ pc = "wm_only_merge"
       \/ pc = "wm_only" /\ ~Selected(loc.i + 1)
    /\ LET tpl_page == loc.reader[loc.i + 1]
           page == IF loc.base_page = << >> THEN tpl_page
                   ELSE merge_page(loc.base_page[1], tpl_page)
           last == loc.i + 1 = Len(loc.reader)
       IN  /\ loc' = [loc EXCEPT !.writer = Append(@, page), !.i = @ + 1, !.base_page = << >>]
           /\ pc' = IF last THEN "metadata" ELSE "wm_only"
    /\ hist' = Entered(hist, <<Event("MERGE", loc.i + 1)>>)
    /\ UNCHANGED <<args, cfg, fs, stdout, fit>>

\* merge_page or PdfReader raising on a page the library cannot process
MergeError ==
    /\ pc \in {"layers_p1_merge", "layers_pi_merge", "wm_only_merge"}
    /\ Raise("merge")
    /\ UNCHANGED <<args, cfg, fs, stdout, hist, fit>>

\* ---- main(): metadata, write, flatten

\* read_template_info(reader)
read_template_info(file) == file.info

\* now_iso_utc() at clock reading t
now_iso_utc(t) == "T:" \o ToString(t)

\* build_xmp_packet(info), the fields it renders, at clock reading t
build_xmp_packet(info, t) ==
    [k \in {"Producer", "CreatorTool", "CreateDate", "ModifyDate"} |->
        IF k = "Producer"
        THEN (IF "/Producer" \in DOMAIN info THEN info["/Producer"] ELSE "Designer 6.5")
        ELSE IF k = "CreatorTool"
        THEN (IF "/Creator" \in DOMAIN info THEN info["/Creator"] ELSE "Designer 6.5")
        ELSE now_iso_utc(t)]

\* The seconds the clock may move on between the call of finalize_info and
\* the call of build_xmp_packet.
MaxTick == 1

\* main, "Metadata", going on to apply_fontwarp whenever --fontwarp is given.
Metadata_WarpInBypass ==
    /\ pc = "metadata"
    /\ \E tick \in 0..MaxTick :
          LET final_info == finalize_info(read_template_info(fs[args.template]),
                                          loc.user_meta, loc.clock)
          IN  loc' = [loc EXCEPT !.final_info = final_info,
                                 !.xmp = build_xmp_packet(final_info, loc.clock + tick),
                                 !.clock = @ + tick]
    /\ pc' = IF args.fontwarp THEN "fontwarp" ELSE "write"
    /\ hist' = Entered(hist, <<Event("LOAD_TEMPLATE", 0), Event("STAMP_METADATA", 0)>>)
    /\ UNCHANGED <<args, cfg, fs, stdout, fit>>

\* main, "Metadata": finalize_info reads the clock, and build_xmp_packet
\* reads it again, tick seconds later.
Metadata ==
    /\ pc = "metadata"
    /\ \E tick \in 0..MaxTick :
          LET final_info == finalize_info(read_template_info(fs[args.template]),
                                          loc.user_meta, loc.clock)
          IN  loc' = [loc EXCEPT !.final_info = final_info,
                                 !.xmp = build_xmp_packet(final_info, loc.clock + tick),
                                 !.clock = @ + tick]
    /\ pc' = IF ~args.w9bp /\ args.fontwarp THEN "fontwarp" ELSE "write"
    /\ hist' = Entered(hist, <<Event("LOAD_TEMPLATE", 0), Event("STAMP_METADATA", 0)>>)
    /\ UNCHANGED <<args, cfg, fs, stdout, fit>>

\* main, "fontwarp stripping only in normal mode": apply_fontwarp(writer)
ApplyFontwarp ==
    /\ pc = "fontwarp"
    /\ loc' = [loc EXCEPT !.stripped = TRUE]
    /\ pc' = "write"
    /\ UNCHANGED <<args, cfg, fs, stdout, hist, fit>>

\* main, "Write output"
WriteOutput ==
    /\ pc = "write"
    /\ fs' = WriteFile(fs, args.output, File("output", loc.writer, loc.final_info, loc.xmp))
    /\ pc' = "written"
    /\ hist' = Entered(hist, <<Event("WRITE", 0)>>)
    /\ UNCHANGED <<args, cfg, loc, stdout, fit>>

\* flatten_all, "root = r.trailer.get('/Root'); if root and '/Metadata' in
\* root: ...": dict.get hands back the trailer's entry as it is held.  Held
\* by reference it is an IndirectObject, which has no membership test: the
\* "in" raises TypeError, the except passes, and no stream is attached.
RootMetadata(held, xmp) == IF held = "indirect" THEN NoInfo ELSE xmp

\* flatten_all(src_pdf, dst_pdf): the file it writes.  The trailer of a
\* written file holds /Root by reference.
flatten_all(src) ==
    File("flat", [k \in 1..Len(src.pages) |-> strip_annots(src.pages[k])], src.info,
         RootMetadata("indirect", src.xmp))

\* main, "Optional flatten", when --flatten is given
Flatten ==
    /\ pc = "written"
    /\ args.flatten
    /\ fs' = WriteFile(fs, FlatPath(args.output), flatten_all(fs[args.output]))
    /\ stdout' = Append(stdout, Line("Recreated & flattened PDF", FlatPath(args.output)))
    /\ hist' = ReadOf(Entered(hist, <<Event("FLATTEN", 0)>>), args.output)
    /\ pc' = "cleanup"
    /\ UNCHANGED <<args, cfg, loc, fit>>

\* The report of the output without the test of --flatten.
Report_Always ==
    /\ pc = "written"
    /\ stdout' = Append(stdout, Line("Recreated PDF", args.output))
    /\ pc' = "cleanup"
    /\ UNCHANGED <<args, cfg, fs, loc, hist, fit>>

\* main, "Optional flatten", otherwise
Report ==
    /\ pc = "written"
    /\ ~args.flatten
    /\ stdout' = Append(stdout, Line("Recreated PDF", args.output))
    /\ pc' = "cleanup"
    /\ UNCHANGED <<args, cfg, fs, loc, hist, fit>>

\* ---- main(): cleanup

\* A cleanup list that holds every layer file whatever --clean says.
CleanupList_All(w9bp, clean, temp_files) == temp_files

\* The paths the cleanup loop goes over.
CleanupList(w9bp, clean, temp_files) ==
    IF w9bp
    THEN (IF clean THEN temp_files ELSE << >>)
    ELSE (IF clean THEN temp_files ELSE SubSeq(temp_files, 1, Min(1, Len(temp_files))))

\* main, "Cleanup temp PDFs": the list to go over
Cleanup_Begin ==
    /\ pc = "cleanup"
    /\ loc' = [loc EXCEPT !.queue = CleanupList(args.w9bp, args.clean, loc.temp_files)]
    /\ pc' = "cleanup_loop"
    /\ hist' = Entered(hist, <<Event("CLEANUP", 0)>>)
    /\ UNCHANGED <<args, cfg, fs, stdout, fit>>

\* One turn of the loop without its try/except: a removal that fails ends
\* the run.
Cleanup_Remove_Raising ==
    /\ pc = "cleanup_loop"
    /\ loc.queue # << >>
    /\ LET pth == Head(loc.queue) IN
       \E ok \in BOOLEAN :
          IF ok
          THEN /\ pth \in DOMAIN fs
               /\ fs' = RemoveFile(fs, pth)
               /\ stdout' = Append(stdout, Line("[clean] removed", pth))
               /\ hist' = [hist EXCEPT !.deleted = @ \cup {pth},
                                       !.rm_attempted = @ \cup {pth}]
               /\ loc' = [loc EXCEPT !.queue = Tail(@)]
               /\ pc' = pc
          ELSE /\ pth \notin DOMAIN fs \/ Cardinality(hist.rm_failed) < MaxRemoveFailures
               /\ hist' = [hist EXCEPT !.rm_failed = @ \cup {pth},
                                       !.rm_attempted = @ \cup {pth}]
               /\ pc' = "aborted"
               /\ loc' = [loc EXCEPT !.queue = Tail(@), !.failure = "OSError"]
               /\ UNCHANGED <<fs, stdout>>
    /\ UNCHANGED <<args, cfg, fit>>

\* One turn of the loop: try: os.remove(pth); print(...) except Exception: pass
Cleanup_Remove ==
    /\ pc = "cleanup_loop"
    /\ loc.queue # << >>
    /\ LET pth == Head(loc.queue) IN
       \E ok \in BOOLEAN :
          /\ IF ok
             THEN /\ pth \in DOMAIN fs
                  /\ fs' = RemoveFile(fs, pth)
                  /\ stdout' = Append(stdout, Line("[clean] removed", pth))
                  /\ hist' = [hist EXCEPT !.deleted = @ \cup {pth},
                                          !.rm_attempted = @ \cup {pth}]
             ELSE /\ pth \notin DOMAIN fs \/ Cardinality(hist.rm_failed) < MaxRemoveFailures
                  /\ hist' = [hist EXCEPT !.rm_failed = @ \cup {pth},
                                          !.rm_attempted = @ \cup {pth}]
                  /\ UNCHANGED <<fs, stdout>>
          /\ loc' = [loc EXCEPT !.queue = Tail(@)]
    /\ UNCHANGED <<args, cfg, pc, fit>>

\* The loop is over: bypass mode is done, normal mode goes on to the bitmaps
Cleanup_End ==
    /\ pc = "cleanup_loop"
    /\ loc.queue = << >>
    /\ pc' = IF args.w9bp THEN "done" ELSE "sweep"
    /\ hist' = IF args.w9bp THEN Entered(hist, <<Event("DONE", 0)>>) ELSE hist
    /\ UNCHANGED <<args, cfg, fs, loc, stdout, fit>>

\* name.endswith(".png") and ".overlay" in name, for a name of the
\* working directory
SweepMatches(p) ==
    /\ p.dir = "."
    /\ Len(p.name) > 1
    /\ p.name[Len(p.name)] = "png"
    /\ \E j \in 2..Len(p.name) : p.name[j] = "overlay"

\* main, "remove any aggressive-mode PNGs": os.listdir(".") and os.remove
SweepPngs ==
    /\ pc = "sweep"
    /\ LET gone == {p \in DOMAIN fs : SweepMatches(p)} IN
          /\ fs' = [q \in DOMAIN fs \ gone |-> fs[q]]
          /\ hist' = Entered([hist EXCEPT !.deleted = @ \cup gone], <<Event("DONE", 0)>>)
    /\ pc' = "done"
    /\ UNCHANGED <<args, cfg, loc, stdout, fit>>

\* ---- the run as a whole

Next ==
    \/ ResolveMeta
    \/ ResolveWm
    \/ ResolveData
    \/ ComposeOverlay
    \/ Layers_Open
    \/ Layers_Page1_Watermark
    \/ Layers_Page1_Merge
    \/ Layers_PageI_Watermark
    \/ Layers_PageI_Merge
    \/ WmOnly_Open
    \/ WmOnly_Watermark
    \/ WmOnly_Merge
    \/ MergeError
    \/ Metadata
    \/ ApplyFontwarp
    \/ WriteOutput
    \/ Flatten
    \/ Report
    \/ Cleanup_Begin
    \/ Cleanup_Remove
    \/ Cleanup_End
    \/ SweepPngs

Spec == Init /\ [][Next]_vars

\* ------------------------------------------------------------------ draw_text_fit_vec alone

\* Longest text given to a fit.
MaxTextLen == 8

\* Rectangle widths, maximum and minimum sizes given to a fit.
FitWidths == {300, 400, 500, 1000}
FitMaxSizes == {100, 105, 110}
FitMinSizes == {70, 75, 100}

\* A run of main() that has not started: the state the fit calls leave alone.
Idle ==
    /\ args = [template |-> TemplatePath, output |-> Path(".", <<"out", "pdf">>),
               w9bp |-> FALSE, fontwarp |-> FALSE, fontwarp_aggressive |-> FALSE,
               clean |-> FALSE, flatten |-> FALSE]
    /\ cfg = [meta |-> NotGiven, wm |-> NotGiven, data |-> NotGiven, ttf |-> FALSE]
    /\ fs = InitFs(1, AllWidgets)
    /\ pc = "idle"
    /\ loc = InitLoc
    /\ stdout = << >>
    /\ hist = InitHist

InitFit ==
    /\ Idle
    /\ \E n \in 1..MaxTextLen, w \in FitWidths, mx \in FitMaxSizes, mn \in FitMinSizes :
          /\ mn <= mx
          /\ fit = [coef |-> Coef([j \in 1..n |-> "x"]), width |-> w,
                    max_size |-> mx, min_size |-> mn, size |-> 0, done |-> FALSE]

\* One call of draw_text_fit_vec on a rectangle of the given width: the
\* size it sets the font to.
FitCall ==
    /\ ~fit.done
    /\ fit' = [fit EXCEPT !.size = FitSingleLine(fit.coef, <<0, 0, fit.width, 200>>,
                                                 fit.max_size, fit.min_size, 20),
                          !.done = TRUE]
    /\ UNCHANGED <<args, cfg, fs, pc, loc, stdout, hist>>

NextFit == FitCall

SpecFit == InitFit /\ [][NextFit]_vars

\* C10: for a non-empty text, a rectangle and min_size <= max_size, the size
\* draw_text_fit_vec draws with lies in [min_size, max_size], and either the
\* text's width at that size is at most the rectangle's width less two
\* insets, or the size is min_size.
C10_FitSingleLineInRange ==
    fit.done =>
        /\ fit.min_size <= fit.size
        /\ fit.size <= fit.max_size
        /\ \/ ~Overflows(fit.coef, fit.size, fit.width - 40)
           \/ fit.size = fit.min_size

\* A text that fits at no size tried: the loop runs past min_size, from 7.1
\* to 6.9, and the size is clamped to 7.0, where the text still overflows.
C10_Witness ==
    /\ fit.done
    /\ fit.max_size = 105
    /\ fit.min_size = 70
    /\ fit.size = 70
    /\ Overflows(fit.coef, fit.size, fit.width - 40)

\* ------------------------------------------------------------------ properties of a run

SeqSet(s) == {s[j] : j \in 1..Len(s)}

\* The run has left compose_overlay_page1 by its return statement.
OverlayComposed ==
    ~args.w9bp /\ pc \notin {"resolve_meta", "resolve_wm", "resolve_data", "compose_overlay", "aborted"}

\* The document main() wrote is at the output path.
OutputWritten == args.output \in DOMAIN fs /\ fs[args.output].kind = "output"

\* Page k is to be watermarked: a watermark configuration is given and its
\* "pages" is "all" in any case of letters, or a list that holds k.
Watermarked(k) ==
    /\ cfg.wm.state = "ok"
    /\ \/ cfg.wm.value.pages_kind = "str" /\ lower(cfg.wm.value.pages_str) = <<"a","l","l">>
       \/ cfg.wm.value.pages_kind = "list" /\ PInt(k) \in SeqSet(cfg.wm.value.pages_list)

\* C1: a semantic key whose widget is absent from page 1 makes its draw a
\* no-op in every rendering mode: compose_overlay_page1 raises no error for
\* it and puts nothing on the canvas for it.
C1_AbsentWidgetIsNoOp ==
    /\ loc.failure # "TypeError"
    /\ loc.reader # << >> =>
          \A j \in 1..Len(loc.canvas) :
              loc.canvas[j].role \in DOMAIN roles =>
                  roles[loc.canvas[j].role] \in loc.reader[1].annots

\* C2: the output has the template's pages in order, and page k is, bottom
\* to top, the watermark layer of page k if k is to be watermarked, the
\* template's page k, and the overlay on page 1 in full mode only.
C2_PageLayers ==
    OutputWritten =>
        LET out == fs[args.output].pages IN
        /\ Len(out) = Len(loc.reader)
        /\ \A k \in 1..Len(out) :
              out[k].layers =
                  (IF Watermarked(k) THEN <<Layer("wm", k)>> ELSE << >>)
                  \o <<Layer("tpl", k)>>
                  \o (IF ~args.w9bp /\ k = 1 THEN <<Layer("overlay", 1)>> ELSE << >>)

\* A finished full-mode run over three pages, the first and third of them
\* watermarked and the second not.
C2_Witness ==
    /\ pc = "done"
    /\ ~args.w9bp
    /\ OutputWritten
    /\ Len(fs[args.output].pages) = 3
    /\ Watermarked(1) /\ ~Watermarked(2) /\ Watermarked(3)

\* C3: in full mode page 1 of the output has no annotations and every other
\* page has those of its template page; in bypass mode every page has those
\* of its template page; watermarked or not.
C3_AnnotationPolicy ==
    OutputWritten =>
        \A k \in 1..Len(fs[args.output].pages) :
            fs[args.output].pages[k].annots =
                IF ~args.w9bp /\ k = 1 THEN {} ELSE loc.reader[k].annots

\* A finished full-mode run whose first two pages are both watermarked and
\* both carry annotations in the template.
C3_Witness ==
    /\ pc = "done"
    /\ ~args.w9bp
    /\ OutputWritten
    /\ Len(loc.reader) >= 2
    /\ Watermarked(1) /\ Watermarked(2)
    /\ loc.reader[1].annots # {} /\ loc.reader[2].annots # {}
    /\ fs[args.output].pages[1].annots = {}
    /\ fs[args.output].pages[2].annots = loc.reader[2].annots

\* The watermark-layer files of the run: one for each page watermarked, named
\* after the overlay in full mode and after the template in bypass mode.
WmLayerPaths ==
    { WmPath(IF args.w9bp THEN args.template ELSE OverlayPath(args.output), k) :
        k \in {m \in 1..Len(loc.reader) : Watermarked(m)} }

HasEntered(ph) == \E j \in 1..Len(hist.phases) : hist.phases[j].ph = ph

\* C4: a render-layer file is removed only after the output is written, and
\* after the flatten pass when one is requested; at the end of a run
\* os.remove has been called on the overlay in full mode with or without
\* --clean, and on a watermark layer, in either mode, exactly when --clean is
\* given; the file is gone exactly when that call did not fail.
C4_CleanupPolicy ==
    /\ [](pc = "done" =>
            /\ ~args.w9bp => OverlayPath(args.output) \in hist.rm_attempted
            /\ \A p \in WmLayerPaths : p \in hist.rm_attempted <=> args.clean
            /\ \A p \in WmLayerPaths \cup (IF args.w9bp THEN {} ELSE {OverlayPath(args.output)}) :
                  p \notin DOMAIN fs <=> p \in hist.rm_attempted \ hist.rm_failed)
    /\ [][(\E p \in DOMAIN fs : p \notin DOMAIN fs') =>
              /\ HasEntered("WRITE")
              /\ args.flatten => HasEntered("FLATTEN")]_vars

\* A finished full-mode run without --clean: the overlay is gone and a
\* watermark layer is still there.
C4_Witness ==
    /\ pc = "done"
    /\ ~args.w9bp
    /\ ~args.clean
    /\ args.flatten
    /\ OverlayPath(args.output) \notin DOMAIN fs
    /\ WmLayerPaths # {}
    /\ WmLayerPaths \subseteq DOMAIN fs


\* The phases in the order of the specification's state machine.
SpecRank(ph) ==
    CASE ph = "LOAD_TEMPLATE" -> 1
      [] ph = "RESOLVE_CONFIG" -> 2
      [] ph = "COMPOSE_OVERLAY" -> 3
      [] ph = "COMPOSE_WATERMARKS" -> 4
      [] ph = "MERGE" -> 5
      [] ph = "STAMP_METADATA" -> 6
      [] ph = "WRITE" -> 7
      [] ph = "FLATTEN" -> 8
      [] ph = "CLEANUP" -> 9
      [] ph = "DONE" -> 10

\* The phases of main(), the composing of a page's watermark and the merge
\* of that page being one stage, the page loop.
StageRank(ph) ==
    CASE ph = "RESOLVE_CONFIG" -> 1
      [] ph = "COMPOSE_OVERLAY" -> 2
      [] ph \in {"COMPOSE_WATERMARKS", "MERGE"} -> 3
      [] ph = "STAMP_METADATA" -> 4
      [] ph = "WRITE" -> 5
      [] ph = "FLATTEN" -> 6
      [] ph = "CLEANUP" -> 7
      [] ph = "DONE" -> 8

IsStage(e) == e.ph # "LOAD_TEMPLATE"

Stages == SelectSeq(hist.phases, IsStage)

\* The phases a finished run has gone through.
PhasesOfRun ==
    {Event("LOAD_TEMPLATE", 0), Event("RESOLVE_CONFIG", 0), Event("STAMP_METADATA", 0),
     Event("WRITE", 0), Event("CLEANUP", 0), Event("DONE", 0)}
    \cup {Event("MERGE", k) : k \in 1..Len(loc.reader)}
    \cup {Event("COMPOSE_WATERMARKS", k) : k \in {m \in 1..Len(loc.reader) : Watermarked(m)}}
    \cup {Event("LOAD_TEMPLATE", k) : k \in {m \in 1..Len(loc.reader) : Watermarked(m)}}
    \cup (IF args.w9bp THEN {} ELSE {Event("COMPOSE_OVERLAY", 0)})
    \cup (IF args.flatten THEN {Event("FLATTEN", 0)} ELSE {})

\* C5 as stated: the phases are entered in the order LOAD_TEMPLATE,
\* RESOLVE_CONFIG, COMPOSE_OVERLAY, COMPOSE_WATERMARKS, MERGE, STAMP_METADATA,
\* WRITE, FLATTEN, CLEANUP, DONE, and none is entered again once a later one
\* has started.
C5_PhasesInSpecOrder ==
    \A i, j \in 1..Len(hist.phases) :
        i < j => SpecRank(hist.phases[i].ph) <= SpecRank(hist.phases[j].ph)

\* C5: a run resolves its configuration first and reads the template only
\* after that, and again for the overlay, for each watermark layer, for the
\* page loop and for the metadata, always before the write; its other phases
\* are entered in the order RESOLVE_CONFIG, COMPOSE_OVERLAY (full mode only),
\* the page loop, STAMP_METADATA, WRITE, FLATTEN (if requested), CLEANUP,
\* DONE, each once; the page loop takes the pages in increasing order and
\* enters COMPOSE_WATERMARKS for a page to be watermarked and then MERGE for
\* that page; a finished run has entered every phase its arguments call for
\* and no other.
C5_PhasesInCodeOrder ==
    /\ \A i, j \in 1..Len(Stages) :
          i < j =>
             /\ StageRank(Stages[i].ph) <= StageRank(Stages[j].ph)
             /\ StageRank(Stages[i].ph) = StageRank(Stages[j].ph) =>
                   /\ StageRank(Stages[i].ph) = 3
                   /\ Stages[i].page <= Stages[j].page
                   /\ Stages[i].page = Stages[j].page =>
                         Stages[i].ph = "COMPOSE_WATERMARKS" /\ Stages[j].ph = "MERGE"
    /\ \A j \in 1..Len(hist.phases) :
          hist.phases[j].ph = "LOAD_TEMPLATE" =>
             /\ j > 1
             /\ hist.phases[1].ph = "RESOLVE_CONFIG"
             /\ \A i \in 1..j : hist.phases[i].ph # "WRITE"
    /\ pc = "done" => SeqSet(hist.phases) = PhasesOfRun

\* A finished full-mode run with a flatten pass that watermarked two pages:
\* COMPOSE_WATERMARKS was entered again after a MERGE.
C5_Witness ==
    /\ pc = "done"
    /\ ~args.w9bp
    /\ args.flatten
    /\ \E i, j \in 1..Len(hist.phases) :
          /\ i < j
          /\ hist.phases[i] = Event("MERGE", 1)
          /\ hist.phases[j] = Event("COMPOSE_WATERMARKS", 2)

\* C6: once a step before the write has failed there is no file written as
\* the output and none written as the flattened variant, and what is at the
\* output path, if anything, is what was there when the run started or a
\* layer file of the run.
C6_NoOutputAfterFailure ==
    loc.failure # "" =>
        /\ \A p \in DOMAIN fs : fs[p].kind \notin {"output", "flat"}
        /\ FlatPath(args.output) \notin DOMAIN fs
        /\ args.output \in DOMAIN fs =>
              \/ args.output = args.template /\ fs[args.output].kind = "template"
              \/ args.output \in SeqSet(loc.temp_files) /\ fs[args.output].kind = "wm"

\* A run that failed in a merge after it had written a watermark layer.
C6_Witness ==
    /\ pc = "aborted"
    /\ loc.failure = "merge"
    /\ \E p \in DOMAIN fs : fs[p].kind = "wm"

\* The paths the cleanup loop of this run goes over.
Scheduled == SeqSet(CleanupList(args.w9bp, args.clean, loc.temp_files))

Removals == {j \in 1..Len(stdout) : stdout[j].tag = "[clean] removed"}

\* C7 as stated: a removal that failed is logged, the output file stays in
\* place and the run goes on.
C7_RemoveFailureLogged ==
    hist.rm_failed # {} =>
        /\ \A p \in hist.rm_failed : \E j \in 1..Len(stdout) :
              stdout[j].path = p /\ stdout[j].tag \notin {"Recreated PDF", "Recreated & flattened PDF"}
        /\ args.output \in DOMAIN fs
        /\ pc # "aborted"

\* C7: a removal that failed prints nothing and stops nothing: the lines
\* printed by the cleanup are those of the removals that succeeded, the run
\* raises no error and has a next step until it is finished, a finished run
\* has called os.remove on every path scheduled, and the output file is in
\* place unless its own path is one scheduled.
C7_RemoveFailureSilent ==
    hist.rm_failed # {} =>
        /\ {stdout[j].path : j \in Removals} = hist.rm_attempted \ hist.rm_failed
        /\ \A j \in 1..Len(stdout) :
              stdout[j].path \in hist.rm_failed =>
                 stdout[j].tag \in {"Recreated PDF", "Recreated & flattened PDF"}
        /\ pc # "aborted" /\ loc.failure = ""
        /\ pc # "done" => ENABLED (Cleanup_Remove \/ Cleanup_End \/ SweepPngs)
        /\ pc = "done" => hist.rm_attempted = Scheduled
        /\ args.output \in DOMAIN fs \/ args.output \in Scheduled

\* A finished run in which the overlay could not be removed and a watermark
\* layer, scheduled after it, was.
C7_Witness ==
    /\ pc = "done"
    /\ hist.rm_failed = {OverlayPath(args.output)}
    /\ OverlayPath(args.output) \in DOMAIN fs
    /\ \E p \in WmLayerPaths : p \in hist.deleted
    /\ OutputWritten

\* C8: the list compose_overlay_page1 returns holds each image file the call
\* wrote, once, and nothing else.
C8_ReturnedListIsComplete ==
    OverlayComposed =>
        /\ SeqSet(loc.tmp_pngs) = hist.pngs
        /\ Len(loc.tmp_pngs) = Cardinality(hist.pngs)

\* C9: at the end of a finished run no image file written in aggressive mode
\* is left, and no file was read after the run removed it.
C9_PngsDeletedByDone ==
    pc = "done" =>
        /\ \A p \in hist.pngs : p \notin DOMAIN fs
        /\ hist.stale = {}


\* ------------------------------------------------------------------ calls of draw_multiline_fit_vec

MaxWrapLen == 5

MULTILINE_MIN_SIZE == 75

\* The characters of the texts wrapped, the rectangles and the maximum sizes.
WrapChars == {"a", " ", "\n"}
WrapTexts == UNION {[1..n -> WrapChars] : n \in 1..MaxWrapLen}
WrapWidths == {120, 150, 300}
WrapHeights == {150, 260, 350}
WrapMaxSizes == {85, 95}

\* "\n".join(lines)
RECURSIVE JoinLines(_)
JoinLines(lines) ==
    IF lines = << >> THEN << >>
    ELSE IF Len(lines) = 1 THEN lines[1]
         ELSE lines[1] \o <<"\n">> \o JoinLines(Tail(lines))

InitWrap ==
    /\ Idle
    /\ \E t \in WrapTexts, w \in WrapWidths, h \in WrapHeights, mx \in WrapMaxSizes :
          fit = [text |-> t, rect |-> <<0, 0, w, h>>, max_size |-> mx,
                 items |-> << >>, size |-> 0, lines |-> << >>, done |-> FALSE]

\* One call of draw_multiline_fit_vec: what it puts on the canvas, and the
\* size and the line list its loop ends with.
WrapCall ==
    /\ ~fit.done
    /\ LET loop == MultiFitLoop(norm(fit.text), fit.rect[3] - fit.rect[1] - 40,
                                fit.rect[4] - fit.rect[2] - 40, fit.max_size,
                                MULTILINE_MIN_SIZE, << >>)
       IN  fit' = [fit EXCEPT
                     !.items = draw_multiline_fit_vec("requester", fit.text, fit.rect,
                                                      FONT_MAIN, fit.max_size),
                     !.size = loop[1],
                     !.lines = loop[2],
                     !.done = TRUE]
    /\ UNCHANGED <<args, cfg, fs, pc, loc, stdout, hist>>

NextWrap == WrapCall

SpecWrap == InitWrap /\ [][NextWrap]_vars

\* The call drew something: the text is not empty once stripped.
WrapDrew == fit.done /\ norm(fit.text) # << >>

WrapMaxW == fit.rect[3] - fit.rect[1] - 40

DrawnLines == [j \in 1..Len(fit.items) |-> fit.items[j].text]

\* C11: for a non-empty text and a rectangle, the size draw_multiline_fit_vec
\* draws with lies in [min_size, max_size], is min_size when no size tried
\* fits the height, and the lines drawn are the greedy wrap of the text at
\* that size.
C11_MultilineFitInRange ==
    WrapDrew =>
        /\ \A j \in 1..Len(fit.items) :
              /\ MULTILINE_MIN_SIZE <= fit.items[j].size
              /\ fit.items[j].size <= fit.max_size
        /\ DrawnLines = VecWrap(norm(fit.text), fit.items[1].size, WrapMaxW)

MaxDigitLen == 5

MaxSlots == 3

DigitChars == {"1", "2", "3", "-"}
DigitTexts == UNION {[1..n -> DigitChars] : n \in 0..MaxDigitLen}
DigitRects == {<<100, 50, 500, 200>>, <<0, 0, 1010, 180>>}

InitDigits ==
    /\ Idle
    /\ \E t \in DigitTexts, k \in 1..MaxSlots, rc \in DigitRects :
          fit = [text |-> t, slots |-> k, rect |-> rc, max_size |-> 120,
                 vec |-> << >>, png |-> << >>, done |-> FALSE]

\* One call of draw_digits_in_cells_vec and one of _draw_digits_grid_to_png
\* with the same digits, rectangle and slots, as draw_digits makes them.
DigitsCall ==
    /\ ~fit.done
    /\ fit' = [fit EXCEPT
                  !.vec = draw_digits_in_cells_vec("ssn_1", fit.text, fit.rect, fit.slots,
                                                   FONT_MAIN, fit.max_size),
                  !.png = _draw_digits_grid_to_png("ssn_1", fit.text,
                                                   fit.rect[3] - fit.rect[1],
                                                   fit.rect[4] - fit.rect[2],
                                                   fit.slots, fit.max_size),
                  !.done = TRUE]
    /\ UNCHANGED <<args, cfg, fs, pc, loc, stdout, hist>>

NextDigits == DigitsCall

SpecDigits == InitDigits /\ [][NextDigits]_vars

TextsOf(items) == [j \in 1..Len(items) |-> items[j].text[1]]

Abs(x) == IF x < 0 THEN -x ELSE x

\* C13: for every string and slots >= 1 the vector and the raster renderer
\* each draw the first min(d, slots) digits of the string, in order, d the
\* number of its digits, and no more; the vector digit i is centred on the
\* middle of cell i of slots cells of equal width between the insets, the
\* raster digit i on that middle to within one pixel.
C13_DigitGrid ==
    fit.done =>
        LET digits == SelectSeq(fit.text, LAMBDA ch : ch \in {"1", "2", "3"})
            n == IF Len(digits) < fit.slots THEN Len(digits) ELSE fit.slots
            first == [j \in 1..n |-> digits[j]]
            left == fit.rect[1] + 20
            w == fit.rect[3] - fit.rect[1] - 40
            W == (3 * (fit.rect[3] - fit.rect[1])) \div 10
        IN  /\ TextsOf(fit.vec) = first
            /\ TextsOf(fit.png) = first
            /\ Len(fit.vec) <= fit.slots /\ Len(fit.png) <= fit.slots
            /\ \A j \in 1..n :
                  \* 2 * slots * cx = slots * (left edge + right edge of cell j)
                  /\ fit.vec[j].pos[1] = (fit.slots * left + (j - 1) * w) + (fit.slots * left + j * w)
                  \* the middle of the glyph box and of cell j, times 2 * slots
                  /\ Abs(fit.slots * (2 * fit.png[j].pos[1] + fit.png[j].size \div 2)
                         - ((6 * fit.slots + (j - 1) * (W - 12)) + (6 * fit.slots + j * (W - 12))))
                        <= 2 * fit.slots

\* More digits than slots: "1-231" in three cells draws "123".
C13_Witness ==
    /\ fit.done
    /\ fit.text = <<"1", "-", "2", "3", "1">>
    /\ fit.slots = 3
    /\ TextsOf(fit.vec) = <<"1", "2", "3">>
    /\ TextsOf(fit.png) = <<"1", "2", "3">>


\* ------------------------------------------------------------------ calls of compose_overlay_page1

\* Values of "ssn" and "ein": absent or empty, blank, well formed, too
\* short, too long, without a digit.
SsnValues ==
    { << >>, <<" ">>,
      <<"1","2","3","-","4","5","-","6","7","8","9">>,
      <<"1","2","3","4","5">>,
      <<"1","2","3","4","5","6","7","8","9","0">> }
EinValues ==
    { << >>,
      <<"9","8","-","7","6","5","4","3","2","1">>,
      <<"9","8","-","7","6">>,
      <<"n","/","a">> }

\* Values of "classification", each with the checkbox role it selects
\* ("" for none).
ClsCases ==
    { [text |-> <<"S"," ","C","o","r","p">>, role |-> "chk_s_corp"],
      [text |-> <<"s","_","c","o","r","p">>, role |-> "chk_s_corp"],
      [text |-> <<"S">>, role |-> "chk_s_corp"],
      [text |-> <<" ","s"," ","c","o","r","p"," ">>, role |-> "chk_s_corp"],
      [text |-> <<"I","n","d","i","v","i","d","u","a","l">>, role |-> "chk_individual"],
      [text |-> <<"c"," ","c","o","r","p">>, role |-> "chk_c_corp"],
      [text |-> <<"C">>, role |-> "chk_c_corp"],
      [text |-> <<"P">>, role |-> "chk_partnership"],
      [text |-> <<"T","R","U","S","T">>, role |-> "chk_trust_estate"],
      [text |-> <<"E","s","t","a","t","e">>, role |-> "chk_trust_estate"],
      [text |-> <<"L","L","C">>, role |-> "chk_llc"],
      [text |-> <<"l","l","c"," ","p">>, role |-> "chk_llc"],
      [text |-> <<"O","t","h","e","r">>, role |-> "chk_other"],
      [text |-> << >>, role |-> ""],
      [text |-> <<"c","o","r","p">>, role |-> ""],
      [text |-> <<"s","-","c","o","r","p">>, role |-> ""],
      [text |-> <<"o","t","h","e","r","s">>, role |-> ""] }

InitOverlay ==
    /\ Idle
    /\ \E s \in SsnValues, e \in EinValues, c \in ClsCases, b \in BOOLEAN,
          fw \in BOOLEAN, aggr \in BOOLEAN :
          fit = [data |-> [name |-> <<"A","l">>, classification |-> c.text, ssn |-> s, ein |-> e,
                           line3b_foreign_flowthrough |-> b],
                 cls_role |-> c.role, fontwarp |-> fw, fontwarp_aggr |-> aggr,
                 st |-> Composer(<<FONT_MAIN>>), done |-> FALSE]

\* One call of compose_overlay_page1 on a page 1 that has every widget.
OverlayCall ==
    /\ ~fit.done
    /\ fit' = [fit EXCEPT
                  !.st = compose_overlay_page1(AllWidgets, fit.data, fit.fontwarp,
                                               fit.fontwarp_aggr, FALSE),
                  !.done = TRUE]
    /\ UNCHANGED <<args, cfg, fs, pc, loc, stdout, hist>>

NextOverlay == OverlayCall

SpecOverlay == InitOverlay /\ [][NextOverlay]_vars

\* All that the call drew: on the canvas, then into each bitmap.
RECURSIVE InBitmaps(_)
InBitmaps(pngs) == IF pngs = << >> THEN << >> ELSE Head(pngs).drawn \o InBitmaps(Tail(pngs))

AllDrawn == fit.st.canvas \o InBitmaps(fit.st.pngs)

\* The digits drawn for a role, in order.
DigitsAt(role) ==
    LET its == SelectSeq(AllDrawn, LAMBDA it : it.role = role /\ it.op \in {"digit", "raster"})
    IN  [j \in 1..Len(its) |-> its[j].text[1]]

NonBlank(t) == \E j \in 1..Len(t) : t[j] \notin {" ", "\n", "\t"}

NineOf(t) == SelectSeq(t, LAMBDA ch : ch \in {"0","1","2","3","4","5","6","7","8","9"})

SsnDrawn == DigitsAt("ssn_1") # << >> /\ DigitsAt("ssn_2") # << >> /\ DigitsAt("ssn_3") # << >>

EinDrawn == DigitsAt("ein_1") # << >> /\ DigitsAt("ein_2") # << >>

AnySsnDigit == DigitsAt("ssn_1") # << >> \/ DigitsAt("ssn_2") # << >> \/ DigitsAt("ssn_3") # << >>

AnyEinDigit == DigitsAt("ein_1") # << >> \/ DigitsAt("ein_2") # << >>

\* C14 as stated: the SSN groups are drawn if and only if ssn is non-empty
\* and ein is empty, the EIN groups whenever ein is non-empty, no digit when
\* neither is present, and never both.
C14_TinRoutingByPresence ==
    fit.done =>
        /\ SsnDrawn <=> (NonBlank(fit.data.ssn) /\ ~NonBlank(fit.data.ein))
        /\ NonBlank(fit.data.ein) => EinDrawn
        /\ (~NonBlank(fit.data.ssn) /\ ~NonBlank(fit.data.ein)) => (~AnySsnDigit /\ ~AnyEinDigit)
        /\ ~(AnySsnDigit /\ AnyEinDigit)

\* C14: the SSN groups (digits 1-3, 4-5 and 6-9 in the three SSN
\* rectangles) are drawn if and only if ssn is non-blank, ein is blank and
\* ssn has exactly nine digits; the EIN groups (digits 1-2 and 3-9 in the two
\* EIN rectangles) if and only if ein is non-blank and has exactly nine
\* digits; otherwise no digit is drawn in those rectangles; a non-blank ein
\* keeps the SSN from being drawn even when nothing is drawn for the ein.
C14_TinRoutingByNineDigits ==
    fit.done =>
        LET s == NineOf(fit.data.ssn)
            e == NineOf(fit.data.ein)
            useSsn == NonBlank(fit.data.ssn) /\ ~NonBlank(fit.data.ein) /\ Len(s) = 9
            useEin == NonBlank(fit.data.ein) /\ Len(e) = 9
        IN  /\ DigitsAt("ssn_1") = IF useSsn THEN <<s[1], s[2], s[3]>> ELSE << >>
            /\ DigitsAt("ssn_2") = IF useSsn THEN <<s[4], s[5]>> ELSE << >>
            /\ DigitsAt("ssn_3") = IF useSsn THEN <<s[6], s[7], s[8], s[9]>> ELSE << >>
            /\ DigitsAt("ein_1") = IF useEin THEN <<e[1], e[2]>> ELSE << >>
            /\ DigitsAt("ein_2") = IF useEin THEN <<e[3], e[4], e[5], e[6], e[7], e[8], e[9]>> ELSE << >>
            /\ ~(AnySsnDigit /\ AnyEinDigit)

\* Both supplied and well formed: the EIN groups "98" and "7654321" are
\* drawn and no SSN digit.
C14_Witness ==
    /\ fit.done
    /\ Len(NineOf(fit.data.ssn)) = 9
    /\ DigitsAt("ein_1") = <<"9", "8">>
    /\ DigitsAt("ein_2") = <<"7", "6", "5", "4", "3", "2", "1">>
    /\ ~AnySsnDigit
    /\ fit.fontwarp_aggr


\* The checkbox glyphs the call drew on the canvas, and those among them
\* that stand for a classification.
Checks == SelectSeq(fit.st.canvas, LAMBDA it : it.op = "check")

ClsChecks == SelectSeq(Checks, LAMBDA it : it.role # "chk_3b")

\* C15 as stated: the overlay has exactly one checkbox glyph when the
\* classification matches an alias and none when it matches none.
C15_OneCheckboxGlyph ==
    fit.done => Len(Checks) = (IF fit.cls_role # "" THEN 1 ELSE 0)

\* C15: with every checkbox widget on the page, the overlay has exactly one
\* classification checkbox glyph, that of the alias matched without regard
\* to case, when the classification matches one, and none when it matches
\* none; the line-3b checkbox glyph is drawn besides if and only if
\* line3b_foreign_flowthrough is set; every checkbox glyph is drawn as
\* vector text in bold on the canvas, in one piece, in aggressive mode too.
C15_OneClassificationGlyph ==
    fit.done =>
        /\ Len(ClsChecks) = (IF fit.cls_role # "" THEN 1 ELSE 0)
        /\ fit.cls_role # "" => ClsChecks[1].role = fit.cls_role
        /\ Len(Checks) = Len(ClsChecks) + (IF fit.data.line3b_foreign_flowthrough THEN 1 ELSE 0)
        /\ \A j \in 1..Len(Checks) : Checks[j].text = CHECK_GLYPH /\ Checks[j].font = FONT_BOLD
        /\ \A k \in 1..Len(fit.st.pngs) : \A j \in 1..Len(fit.st.pngs[k].drawn) :
              fit.st.pngs[k].drawn[j].text # CHECK_GLYPH
        /\ \A j \in 1..Len(fit.st.canvas) :
              (fit.st.canvas[j].op = "image") => fit.st.canvas[j].role \notin
                  {"chk_individual", "chk_c_corp", "chk_s_corp", "chk_partnership",
                   "chk_trust_estate", "chk_llc", "chk_other", "chk_3b"}

\* "S Corp" in aggressive mode with the line-3b flag set: the S-corp glyph
\* and the line-3b glyph, both vector.
C15_Witness ==
    /\ fit.done
    /\ fit.fontwarp_aggr
    /\ fit.data.classification = <<"S"," ","C","o","r","p">>
    /\ fit.data.line3b_foreign_flowthrough
    /\ Len(Checks) = 2
    /\ ClsChecks[1].role = "chk_s_corp"


\* ------------------------------------------------------------------ scenarios of a run

\* What a bitmap placed on the canvas holds.
BitmapOf(it) == fs[Path("/tmp", it.text)].pages

\* The texts the overlay of the run shows, each with the role it was drawn
\* for: the non-empty strings on the canvas and in the bitmaps placed on it.
OverlayTexts ==
    { [role |-> loc.canvas[j].role, text |-> loc.canvas[j].text] :
        j \in {m \in 1..Len(loc.canvas) :
                 loc.canvas[m].op # "image" /\ loc.canvas[m].text # << >>} }
    \cup UNION { { [role |-> BitmapOf(loc.canvas[j])[q].role, text |-> BitmapOf(loc.canvas[j])[q].text] :
                     q \in {m \in 1..Len(BitmapOf(loc.canvas[j])) :
                              BitmapOf(loc.canvas[j])[m].text # << >>} } :
                 j \in {m \in 1..Len(loc.canvas) : loc.canvas[m].op = "image"} }

\* Full mode, a one-page template with the name widget, no watermark, no
\* metadata file, a data record with "name" only, and the output written.
NameOnlyRun ==
    /\ ~args.w9bp
    /\ cfg.wm = NotGiven
    /\ cfg.meta = NotGiven
    /\ cfg.data = Loaded([name |-> <<"A","n","n">>])
    /\ OutputWritten
    /\ Len(loc.reader) = 1
    /\ "f1_01[0]" \in loc.reader[1].annots

\* C16 as stated: in that run the output has one page, the only text on the
\* overlay is the name, page 1 has no annotations and Producer is the
\* default.
C16_NameOnlyOverlay ==
    NameOnlyRun =>
        /\ Len(fs[args.output].pages) = 1
        /\ OverlayTexts = {[role |-> "name", text |-> <<"A","n","n">>]}
        /\ fs[args.output].pages[1].annots = {}
        /\ fs[args.output].info["/Producer"] = "Designer 6.5"

\* C16: in that run the output has one page, the texts on the overlay are
\* the name and, at the signature date, the date of the day, page 1 has no
\* annotations and Producer is the default.
C16_NameAndDateOverlay ==
    NameOnlyRun =>
        /\ Len(fs[args.output].pages) = 1
        /\ fs[args.output].pages[1].layers = <<Layer("tpl", 1), Layer("overlay", 1)>>
        /\ OverlayTexts = {[role |-> "name", text |-> <<"A","n","n">>],
                           [role |-> "signature_date", text |-> Today]}
        /\ fs[args.output].pages[1].annots = {}
        /\ fs[args.output].info["/Producer"] = "Designer 6.5"

\* The scenario, finished, in vector mode.
C16_Witness ==
    /\ NameOnlyRun
    /\ pc = "done"
    /\ ~args.fontwarp_aggressive
    /\ ~args.fontwarp
    /\ Len(loc.canvas) = 3


\* ------------------------------------------------------------------ calls of finalize_info

MaxClock == 2

\* The keys a template's information dictionary may hold, each with the
\* value "tpl".
TplInfoKeys == {"/Title", "/Creator", "/Producer", "/CreationDate", "/ModDate", "/Trapped"}
TplInfos == UNION { {[k \in ks |-> "tpl"]} : ks \in SUBSET TplInfoKeys }

\* The "custom" objects of a metadata file: none, one with a creation date,
\* one with a modification date and a title, both written with spaces, and
\* one with a key of its own.
CustomChoices ==
    { << >>,
      <<MetaCustom(<<CustomItem(<<"C","r","e","a","t","i","o","n","D","a","t","e">>, "1999")>>)>>,
      <<MetaCustom(<<CustomItem(<<" ","M","o","d"," ","D","a","t","e"," ">>, "1999"),
                     CustomItem(<<"T","i","t","l","e">>, "cT")>>)>>,
      <<MetaCustom(<<CustomItem(<<"X"," ","Y">>, "cX")>>)>> }

\* The metadata files: title, producer and creator given or not (the title
\* also null), the custom object before or after them.
RawMetas ==
    { (IF first THEN c ELSE << >>) \o t \o p \o cr \o (IF first THEN << >> ELSE c) :
        first \in BOOLEAN, c \in CustomChoices,
        t \in { << >>, <<MetaStr("title", "uT")>>, <<MetaNull("title")>> },
        p \in { << >>, <<MetaStr("producer", "uP")>> },
        cr \in { << >>, <<MetaStr("creator", "uC")>> } }

InitInfo ==
    /\ Idle
    /\ \E ti \in TplInfos, raw \in RawMetas, t \in 1..MaxClock :
          fit = [template_info |-> ti, raw |-> raw, clock |-> t,
                 user_info |-> NoInfo, out |-> NoInfo, done |-> FALSE]

\* user_meta = build_metadata_dict(load_json(args.meta)) and
\* finalize_info(read_template_info(reader), user_meta), the clock reading
\* fit.clock during the call.
InfoCall ==
    /\ ~fit.done
    /\ LET user_info == build_metadata_dict(fit.raw) IN
       fit' = [fit EXCEPT !.user_info = user_info,
                          !.out = finalize_info(fit.template_info, user_info, fit.clock),
                          !.done = TRUE]
    /\ UNCHANGED <<args, cfg, fs, pc, loc, stdout, hist>>

NextInfo == InfoCall

SpecInfo == InitInfo /\ [][NextInfo]_vars

DateKeys == {"/CreationDate", "/ModDate"}

DefaultedKeys == {"/Creator", "/Producer"}

\* C17: for every key other than /CreationDate and /ModDate the result of
\* finalize_info holds the user's value when the user record has the key,
\* otherwise the template's when the template has it; /Creator and
\* /Producer hold the default exactly when neither has the key; the result
\* has no other key.
C17_MergeRule ==
    fit.done =>
        /\ DOMAIN fit.out =
              DOMAIN fit.template_info \cup DOMAIN fit.user_info \cup DefaultedKeys \cup DateKeys
        /\ \A k \in DOMAIN fit.out \ DateKeys :
              fit.out[k] =
                  IF k \in DOMAIN fit.user_info THEN fit.user_info[k]
                  ELSE IF k \in DOMAIN fit.template_info THEN fit.template_info[k]
                  ELSE "Designer 6.5"
        /\ \A k \in DefaultedKeys :
              (k \notin DOMAIN fit.user_info /\ k \notin DOMAIN fit.template_info)
                  => fit.out[k] = "Designer 6.5"

\* The user's title wins over the template's, the template's creator is
\* kept, and the producer, which neither has, is the default.
C17_Witness ==
    /\ fit.done
    /\ "/Title" \in DOMAIN fit.template_info
    /\ "/Title" \in DOMAIN fit.user_info
    /\ fit.user_info["/Title"] = "uT"
    /\ fit.out["/Title"] = "uT"
    /\ "/Creator" \in DOMAIN fit.template_info /\ "/Creator" \notin DOMAIN fit.user_info
    /\ fit.out["/Creator"] = "tpl"
    /\ "/Producer" \notin DOMAIN fit.template_info \cup DOMAIN fit.user_info
    /\ fit.out["/Producer"] = "Designer 6.5"

\* C18: whatever the template and the user metadata hold, dates of their
\* own included, /CreationDate and /ModDate of the result are equal and are
\* the clock value read during the call.
C18_DatesAreCallTime ==
    fit.done =>
        /\ fit.out["/CreationDate"] = fit.out["/ModDate"]
        /\ fit.out["/CreationDate"] = "D:" \o ToString(fit.clock)
        /\ fit.out["/CreationDate"] \notin {"tpl", "1999"}

\* The template has both dates and the user metadata brings a /ModDate
\* through a custom key written " Mod Date ".
C18_Witness ==
    /\ fit.done
    /\ DateKeys \subseteq DOMAIN fit.template_info
    /\ "/ModDate" \in DOMAIN fit.user_info
    /\ fit.user_info["/ModDate"] = "1999"
    /\ fit.clock = 2
    /\ fit.out["/ModDate"] = "D:2"

\* ------------------------------------------------------------------ calls of compose_watermark_page: the tile

MaxTileDim == 6

MaxTileStep == 3

\* x = 0.0, then x += 0.1 k times, in IEEE-754 double arithmetic: the sign
\* of x - k/10 for k = 1..80 (0.1 is not a binary fraction, so the sum is
\* rounded at each step; after 10 steps it is 0.9999999999999999).
TenthDrift ==
    << 1,  1,  1,  1,  0, -1, -1, -1, -1, -1, -1, -1,  1,  1,  1,  1,  1,  1,  1,  1,
        1,  1,  1,  1,  1,  1,  1,  1,  1,  1,  1,  1,  1,  1,  1,  1,  1,  1,  1,  1,
        1,  1,  1,  1,  0, -1, -1, -1, -1, -1, -1, -1, -1, -1, -1, -1, -1, -1, -1, -1,
       -1, -1, -1, -1, -1, -1, -1, -1, -1, -1, -1, -1, -1, -1, -1, -1, -1, -1, -1, -1 >>

\* The value of a coordinate after k steps: <<tenths of a point, sign of the
\* rounding error>>.  Whole numbers of points add exactly; a step of 0.1 is
\* taken from the offset 0 only.
Coord(start, step, k) ==
    <<start + k * step, IF step = 1 /\ k >= 1 THEN TenthDrift[k] ELSE 0>>

\* x < w for a coordinate and a page size that is a whole number of points
FloatLess(c, w) == c[1] < w \/ (c[1] = w /\ c[2] < 0)

\* x = x0; while x < w: draw at (x, y); x += xs.  k counts the steps taken.
RECURSIVE TileRow(_, _, _, _, _)
TileRow(x0, k, y, w, xs) ==
    IF FloatLess(Coord(x0, xs, k), w)
    THEN << <<Coord(x0, xs, k), y>> >> \o TileRow(x0, k + 1, y, w, xs)
    ELSE << >>

\* y = y0; while y < h: the inner loop; y += ys
RECURSIVE TileRows(_, _, _, _, _, _, _)
TileRows(x0, y0, k, w, h, xs, ys) ==
    IF FloatLess(Coord(y0, ys, k), h)
    THEN TileRow(x0, 0, Coord(y0, ys, k), w, xs) \o TileRows(x0, y0, k + 1, w, h, xs, ys)
    ELSE << >>

\* The tile block of compose_watermark_page for a page of size (w, h), in
\* tenths of a point: the origins of the instances drawn, in order.
TileInstances(w, h, tile) ==
    IF norm(tile.text) = << >> THEN << >>
    ELSE TileRows(tile.x_offset, tile.y_offset, 0, w, h, tile.x_step, tile.y_step)

\* Pages of 1..MaxTileDim points a side; steps of 1..MaxTileStep points
\* from any offset inside the page, or steps of 0.1 across from offset 0.
InitTile ==
    /\ Idle
    /\ \E w \in 1..MaxTileDim, h \in 1..MaxTileDim,
          xs \in {1} \cup {10 * n : n \in 1..MaxTileStep}, ys \in 1..MaxTileStep,
          txt \in { <<"w","m">>, <<" ">> } :
          \E x0 \in 0..(w - 1), y0 \in 0..(h - 1) :
             /\ xs = 1 => x0 = 0
             /\ fit = [w |-> 10 * w, h |-> 10 * h,
                       tile |-> [text |-> txt, x_offset |-> 10 * x0, y_offset |-> 10 * y0,
                                 x_step |-> xs, y_step |-> 10 * ys],
                       drawn |-> << >>, done |-> FALSE]

\* One call of compose_watermark_page with a tile and no items.
TileCall ==
    /\ ~fit.done
    /\ fit' = [fit EXCEPT !.drawn = TileInstances(fit.w, fit.h, fit.tile), !.done = TRUE]
    /\ UNCHANGED <<args, cfg, fs, pc, loc, stdout, hist>>

NextTile == TileCall

SpecTile == InitTile /\ [][NextTile]_vars

\* ceil(a / b) for a > 0, b > 0
CeilDiv(a, b) == (a + b - 1) \div b

TileNx == CeilDiv(fit.w - fit.tile.x_offset, fit.tile.x_step)

TileNy == CeilDiv(fit.h - fit.tile.y_offset, fit.tile.y_step)

\* C19: for a tile with a non-empty text, offsets inside the page and
\* positive steps, the instances drawn are ceil((W - x0)/xs) *
\* ceil((H - y0)/ys) in number, one at each grid point (x0 + i*xs,
\* y0 + j*ys), and each origin has x0 <= x < W and y0 <= y < H.
C19_TileCount ==
    (fit.done /\ fit.tile.text = <<"w","m">>) =>
        /\ Len(fit.drawn) = TileNx * TileNy
        /\ {<<fit.drawn[k][1][1], fit.drawn[k][2][1]>> : k \in 1..Len(fit.drawn)} =
              { <<fit.tile.x_offset + i * fit.tile.x_step, fit.tile.y_offset + j * fit.tile.y_step>> :
                  i \in 0..(TileNx - 1), j \in 0..(TileNy - 1) }
        /\ \A k \in 1..Len(fit.drawn) :
              /\ fit.tile.x_offset <= fit.drawn[k][1][1] /\ FloatLess(fit.drawn[k][1], fit.w)
              /\ fit.tile.y_offset <= fit.drawn[k][2][1] /\ FloatLess(fit.drawn[k][2], fit.h)

\* The same for offsets and steps that are whole numbers of points, whose
\* sums are exact.
TileCountWhenExact ==
    fit.tile.x_step # 1 => C19_TileCount


\* ------------------------------------------------------------------ calls of apply_fontwarp

MaxDepth == 1

\* How a dictionary's entry holds its value: the dictionary object itself,
\* an IndirectObject naming it, or no entry at all.
Held == {"direct", "indirect"}

Absent == [held |-> "absent"]

\* A font object: its /ToUnicode entry and the rest of it.
FontObjs == [held : Held, tounicode : BOOLEAN, encoding : {"WinAnsiEncoding"}]

\* The /Font entry of a resource dictionary.
FontMaps == {Absent} \cup [held : Held, fonts : {<<fo>> : fo \in FontObjs}]

\* Resource dictionaries with XObjects nested d deep.
RECURSIVE ResAt(_)
ResAt(d) ==
    {Absent} \cup
    [held : Held, font : FontMaps,
     xobject : IF d = 0 THEN {Absent}
               ELSE {Absent} \cup [held : Held,
                                   xobjs : {<<[subtype |-> "Form", resources |-> sub]>> : sub \in ResAt(d - 1)}]]

\* fobj = fref.get_object(); if "/ToUnicode" in fobj: del fobj["/ToUnicode"]
StripFont(f) == [f EXCEPT !.tounicode = FALSE]

RECURSIVE StripDict(_)
\* _strip_tounicode_in_resources(res): res.get(...) hands back the entry as
\* it is held, so only an entry that is a DictionaryObject passes the
\* isinstance tests; the items of a dictionary are resolved by get_object().
_strip_tounicode_in_resources(res) ==
    IF res.held = "direct" THEN StripDict(res) ELSE res

\* The body of _strip_tounicode_in_resources once res is a DictionaryObject.
StripDict(res) ==
    [res EXCEPT
       !.font = IF @.held = "direct"
                THEN [@ EXCEPT !.fonts = [i \in DOMAIN @ |-> StripFont(@[i])]]
                ELSE @,
       !.xobject = IF @.held = "direct"
                   THEN [@ EXCEPT !.xobjs =
                           [i \in DOMAIN @ |->
                              [@[i] EXCEPT !.resources = _strip_tounicode_in_resources(@)]]]
                   ELSE @]

\* apply_fontwarp(writer), one page: an indirect /Resources is resolved
\* before the call.
WarpPage(res) == IF res.held = "absent" THEN res ELSE StripDict(res)

apply_fontwarp(pages) == [i \in DOMAIN pages |-> WarpPage(pages[i])]

\* A writer of one page, or of two whose second has no XObjects.
InitWarp ==
    /\ Idle
    /\ \E p1 \in ResAt(MaxDepth), more \in {<< >>} \cup {<<p2>> : p2 \in ResAt(0)} :
          fit = [pages |-> <<p1>> \o more, out |-> << >>, done |-> FALSE]

WarpCall ==
    /\ ~fit.done
    /\ fit' = [fit EXCEPT !.out = apply_fontwarp(fit.pages), !.done = TRUE]
    /\ UNCHANGED <<args, cfg, fs, pc, loc, stdout, hist>>

NextWarp == WarpCall

SpecWarp == InitWarp /\ [][NextWarp]_vars

\* The font objects reachable from a resource dictionary, however held.
RECURSIVE FontsOf(_)
FontsOf(res) ==
    IF res.held = "absent" THEN {}
    ELSE (IF res.font.held = "absent" THEN {}
          ELSE {res.font.fonts[i] : i \in DOMAIN res.font.fonts})
         \cup
         (IF res.xobject.held = "absent" THEN {}
          ELSE UNION {FontsOf(res.xobject.xobjs[i].resources) : i \in DOMAIN res.xobject.xobjs})

\* A resource dictionary with every /ToUnicode taken out.
RECURSIVE Erased(_)
Erased(res) ==
    IF res.held = "absent" THEN res
    ELSE [res EXCEPT
            !.font = IF @.held = "absent" THEN @
                     ELSE [@ EXCEPT !.fonts = [i \in DOMAIN @ |-> StripFont(@[i])]],
            !.xobject = IF @.held = "absent" THEN @
                        ELSE [@ EXCEPT !.xobjs =
                                [i \in DOMAIN @ |-> [@[i] EXCEPT !.resources = Erased(@)]]]]

\* Every dictionary below a resource dictionary is held directly.
RECURSIVE AllDirect(_)
AllDirect(res) ==
    res.held = "absent" \/
    /\ res.font.held # "indirect"
    /\ res.xobject.held # "indirect"
    /\ res.xobject.held = "direct" =>
          \A i \in DOMAIN res.xobject.xobjs :
             /\ res.xobject.xobjs[i].resources.held # "indirect"
             /\ AllDirect(res.xobject.xobjs[i].resources)

\* C20: after apply_fontwarp no font object reachable from a page's
\* resources, directly or through the resources of nested XObjects, and
\* whether the dictionaries are held directly or by indirect reference, has
\* a /ToUnicode entry, and nothing else is changed.
C20_FontwarpComplete ==
    fit.done =>
        \A i \in DOMAIN fit.out :
           /\ \A fo \in FontsOf(fit.out[i]) : ~fo.tounicode
           /\ fit.out[i] = Erased(fit.pages[i])

\* The same for pages whose /Font, /XObject and nested /Resources entries
\* are all held directly (the page's own /Resources may be indirect).
FontwarpCompleteWhenDirect ==
    fit.done =>
        \A i \in DOMAIN fit.out :
           AllDirect(fit.pages[i]) => /\ \A fo \in FontsOf(fit.out[i]) : ~fo.tounicode
                                      /\ fit.out[i] = Erased(fit.pages[i])

\* Whatever is changed is a /ToUnicode entry: the other entries stay.
FontwarpOnlyToUnicode ==
    fit.done => \A i \in DOMAIN fit.out : Erased(fit.out[i]) = Erased(fit.pages[i])


\* ------------------------------------------------------------------ properties of a run: the bypass mode

\* C21: in bypass mode the font-warp flags are ignored.  What a bypass run
\* produces is fixed by the template, the configurations and the output
\* name, whatever --fontwarp and --fontwarp-aggressive are: the output's
\* pages are the template's with their watermark layers and annotations, no
\* font resource is stripped, nothing is composed or rasterized, and the
\* only files made or removed are the output, its flattened copy and the
\* watermark layers named after the template.
C21_BypassIgnoresFontwarp ==
    args.w9bp =>
        /\ ~loc.stripped
        /\ loc.canvas = << >> /\ loc.tmp_pngs = << >> /\ hist.pngs = {}
        /\ DOMAIN fs \subseteq
              {TemplatePath, StrayPng, args.output, FlatPath(args.output)} \cup WmLayerPaths
        /\ hist.rm_attempted \subseteq WmLayerPaths
        /\ OutputWritten =>
              /\ Len(fs[args.output].pages) = Len(loc.reader)
              /\ \A k \in 1..Len(loc.reader) :
                    /\ fs[args.output].pages[k].layers =
                          (IF Watermarked(k) THEN <<Layer("wm", k)>> ELSE << >>)
                          \o <<Layer("tpl", k)>>
                    /\ fs[args.output].pages[k].annots = loc.reader[k].annots

\* A finished bypass run with both font-warp flags set and a watermark
\* layer under its page.
C21_Witness ==
    /\ pc = "done"
    /\ args.w9bp /\ args.fontwarp /\ args.fontwarp_aggressive
    /\ OutputWritten
    /\ Watermarked(1)
    /\ ~loc.stripped


\* ------------------------------------------------------------------ calls of choose_wm_color

MaxColorLen == 4

ColorChars == {"#", "0", "8", "f", "g", " "}

\* The strings given as visible_color: every short one, and some of the
\* length of #RRGGBB.
ColorTexts ==
    UNION {[1..n -> ColorChars] : n \in 0..MaxColorLen}
    \cup { <<"#","f","f","0","0","8","8">>, <<"#","g","g","0","0","0","0">>,
           <<"#"," ","f","0","f","0","f">>, <<"f","f","0","0","8","8","0">> }

\* What "visible_color" holds: nothing, a string, or a number.
ColorInputs == {[kind |-> "none"], [kind |-> "num"]} \cup {[kind |-> "str", text |-> t] : t \in ColorTexts}

\* What "visible_gray" holds: nothing, a number in tenths, the float NaN
\* (json.load reads the literal NaN), or a string.
GrayInputs ==
    {[kind |-> "none"], [kind |-> "nan"]}
    \cup {[kind |-> "num", tenths |-> g] : g \in {-5, 0, 5, 10, 15}}
    \cup {[kind |-> "str", text |-> t] : t \in { <<"0",".","5">>, <<"a">> }}

HexDigits == <<"0","1","2","3","4","5","6","7","8","9","a","b","c","d","e","f">>

IsHex(ch) == \E j \in 1..16 : HexDigits[j] = ch

\* int(t, 16) for a text of hex digits and blanks: the value, or -1 for a
\* ValueError.  int() strips the blanks around the digits.
Int16(t) ==
    LET d == strip(t) IN
    IF d = << >> \/ \E j \in 1..Len(d) : ~IsHex(d[j]) THEN -1
    ELSE IF Len(d) = 1 THEN IndexIn(d[1], HexDigits) - 1
    ELSE 16 * (IndexIn(d[1], HexDigits) - 1) + (IndexIn(d[2], HexDigits) - 1)

\* A colour component as <<numerator, denominator>>; NaN is <<0, 0>>.
Rgb(c1, c2, c3) == [kind |-> "rgb", c |-> <<c1, c2, c3>>]

NoColor == [kind |-> "none"]

ValueError == [kind |-> "raise", exc |-> "ValueError"]

\* _parse_hex_color(s): None, the colour, or the ValueError of int()
_parse_hex_color(s0) ==
    LET s == strip(s0) IN
    IF ~startswith(s, <<"#">>) THEN NoColor
    ELSE LET h == Tail(s)
             v == IF Len(h) = 3 THEN [j \in 1..3 |-> Int16(<<h[j], h[j]>>)]
                  ELSE IF Len(h) = 6 THEN [j \in 1..3 |-> Int16(SubSeq(h, 2 * j - 1, 2 * j))]
                  ELSE << >>
         IN  IF v = << >> THEN NoColor
             ELSE IF \E j \in 1..3 : v[j] = -1 THEN ValueError
             ELSE Rgb(<<v[1], 255>>, <<v[2], 255>>, <<v[3], 255>>)

\* float(g) for what visible_gray holds: a number in tenths, NaN, or a
\* ValueError
FloatOf(g) ==
    IF g.kind \in {"num", "nan"} THEN g
    ELSE IF g.text = <<"0",".","5">> THEN [kind |-> "num", tenths |-> 5]
    ELSE [kind |-> "error"]

\* min(max(g, 0.0), 1.0): a comparison with NaN is false, so NaN stays
Clamp01(g) ==
    IF g.kind = "nan" THEN <<0, 0>>
    ELSE <<IF g.tenths < 0 THEN 0 ELSE IF g.tenths > 10 THEN 10 ELSE g.tenths, 10>>

LightGray == Rgb(<<82, 100>>, <<82, 100>>, <<82, 100>>)

\* choose_wm_color(wm_cfg, visible); given is "if wm_cfg:"
choose_wm_color(given, color, gray, visible) ==
    IF ~visible THEN Rgb(<<1, 1>>, <<1, 1>>, <<1, 1>>)
    ELSE IF ~given THEN LightGray
    ELSE LET rgb == IF color.kind = "str" THEN _parse_hex_color(color.text) ELSE NoColor IN
         IF rgb.kind = "raise" THEN rgb
         ELSE IF rgb.kind = "rgb" THEN rgb
         ELSE IF gray.kind = "none" \/ FloatOf(gray).kind = "error" THEN LightGray
         ELSE Rgb(Clamp01(FloatOf(gray)), Clamp01(FloatOf(gray)), Clamp01(FloatOf(gray)))

InitColor ==
    /\ Idle
    /\ \E given \in BOOLEAN, color \in ColorInputs, gray \in GrayInputs, visible \in BOOLEAN :
          /\ ~given => (color.kind = "none" /\ gray.kind = "none")
          /\ fit = [given |-> given, color |-> color, gray |-> gray, visible |-> visible,
                    result |-> NoColor, done |-> FALSE]

ColorCall ==
    /\ ~fit.done
    /\ fit' = [fit EXCEPT !.result = choose_wm_color(fit.given, fit.color, fit.gray, fit.visible),
                          !.done = TRUE]
    /\ UNCHANGED <<args, cfg, fs, pc, loc, stdout, hist>>

NextColor == ColorCall

SpecColor == InitColor /\ [][NextColor]_vars

\* A valid #RGB or #RRGGBB string: "#" and three or six hex digits.
ValidHex(color) ==
    /\ color.kind = "str"
    /\ LET s == strip(color.text) IN
       /\ startswith(s, <<"#">>)
       /\ Len(s) \in {4, 7}
       /\ \A j \in 2..Len(s) : IsHex(s[j])

In01(c) == c[2] > 0 /\ 0 <= c[1] /\ c[1] <= c[2]

\* C22: choose_wm_color returns an RGB triple with components in [0,1]:
\* white in invisible mode; in visible mode the colour of visible_color
\* when it is a valid #RGB or #RRGGBB string, otherwise the gray level
\* visible_gray clamped to [0,1] when it is numeric, otherwise the light
\* gray (0.82, 0.82, 0.82); a value that is not a valid colour is treated
\* as not given.
C22_ColorPolicy ==
    fit.done =>
        /\ fit.result.kind = "rgb"
        /\ \A j \in 1..3 : In01(fit.result.c[j])
        /\ ~fit.visible => fit.result = Rgb(<<1, 1>>, <<1, 1>>, <<1, 1>>)
        /\ (fit.visible /\ ValidHex(fit.color)) => fit.result = _parse_hex_color(fit.color.text)
        /\ (fit.visible /\ ~ValidHex(fit.color)) =>
              fit.result = IF fit.gray.kind = "num"
                           THEN Rgb(Clamp01(fit.gray), Clamp01(fit.gray), Clamp01(fit.gray))
                           ELSE LightGray

\* The policy for a visible_color that is absent, not a string, without a
\* leading "#" or of another length than 3 or 6 after it, or a valid one,
\* and a visible_gray that is absent, a finite number or a string that is
\* no number.
ColorPolicyOnPlainValues ==
    (/\ fit.color.kind = "str" =>
           \/ ValidHex(fit.color)
           \/ ~startswith(strip(fit.color.text), <<"#">>)
           \/ Len(strip(fit.color.text)) \notin {4, 7}
     /\ fit.gray.kind \in {"none", "num"} \/ (fit.gray.kind = "str" /\ FloatOf(fit.gray).kind = "error"))
    => C22_ColorPolicy


\* ------------------------------------------------------------------ properties of a run: the flatten pass

\* The flatten pass has run and its file is there.
Flattened == HasEntered("FLATTEN") /\ FlatPath(args.output) \in DOMAIN fs

\* The flattened document has the pages of the written output in order,
\* without annotations, and its document info.
FlattenKeepsPagesAndInfo ==
    Flattened =>
        LET flat == fs[FlatPath(args.output)] IN
        /\ flat.kind = "flat"
        /\ Len(flat.pages) = Len(loc.writer)
        /\ \A k \in 1..Len(flat.pages) :
              flat.pages[k].layers = loc.writer[k].layers /\ flat.pages[k].annots = {}
        /\ flat.info = loc.final_info

\* C23: when flatten is requested, the flattened document has the same
\* number of pages in the same order as the written output, no page of it
\* has an annotation, and it carries the written output's document info and
\* its XMP metadata stream, in full mode and in bypass mode.
C23_FlattenCarriesAll ==
    /\ FlattenKeepsPagesAndInfo
    /\ Flattened => fs[FlatPath(args.output)].xmp = loc.xmp


\* ------------------------------------------------------------------ properties of a run: the template

\* C24: the template is only read: for every choice of template path,
\* output path and configuration, no step of a run writes to, overwrites or
\* deletes the template file.
C24_TemplateOnlyRead ==
    [][(TemplatePath \in DOMAIN fs') /\ fs[TemplatePath] = fs'[TemplatePath]]_vars

\* The same for a run whose --output is not the template's path.
TemplateKeptUnderOtherOutput ==
    [][args.output # TemplatePath =>
          (TemplatePath \in DOMAIN fs' /\ fs[TemplatePath] = fs'[TemplatePath])]_vars


\* ------------------------------------------------------------------ calls of FontCycler.next

MaxPool == 3

MaxCalls == 7

PoolFonts == {"Helvetica", "Courier", "Times-Roman"}

\* A cycler made from a pool of 0..MaxPool fonts, before its first call.
InitCycler ==
    /\ Idle
    /\ \E n \in 0..MaxPool : \E pool \in [1..n -> PoolFonts] :
          fit = [pool |-> pool, cycler |-> FontCycler(pool), returned |-> << >>]

\* One call of cycler.next()
CyclerCall ==
    /\ Len(fit.returned) < MaxCalls
    /\ fit' = [fit EXCEPT !.returned = Append(@, CyclerFont(fit.cycler)),
                          !.cycler = CyclerStep(@)]
    /\ UNCHANGED <<args, cfg, fs, pc, loc, stdout, hist>>

NextCycler == CyclerCall

SpecCycler == InitCycler /\ [][NextCycler]_vars

\* C25: for a pool of n >= 1 fonts the k-th call of FontCycler.next returns
\* pool[(k - 1) mod n], counting the pool from 0, so the sequence wraps to
\* the start of the pool; an empty pool behaves as the one-element pool
\* holding the main font.
C25_CyclerOrder ==
    LET pool == IF fit.pool = << >> THEN <<FONT_MAIN>> ELSE fit.pool
        n == Len(pool)
    IN  /\ \A k \in 1..Len(fit.returned) : fit.returned[k] = pool[((k - 1) % n) + 1]
        /\ \A k \in 1..(Len(fit.returned) - n + 1) :
              \A j \in 1..n :
                 \E m \in k..(k + n - 1) : fit.returned[m] = pool[j]

\* A pool of three different fonts called into its third round.
C25_Witness ==
    /\ fit.pool = <<"Helvetica", "Courier", "Times-Roman">>
    /\ Len(fit.returned) = 7
    /\ fit.returned[4] = "Helvetica"
    /\ fit.returned[7] = "Helvetica"
    /\ fit.returned[6] = "Times-Roman"


\* ------------------------------------------------------------------ the page selection and the items of a layer

MaxListLen == 2

\* compose_watermark_page, the loop over "items": the strings drawn, in
\* order; an item whose text is empty after norm() is passed over.
WmItemsDrawn(items) ==
    LET kept == SelectSeq(items, LAMBDA it : norm(it.text) # << >>)
    IN  [j \in 1..Len(kept) |-> [text |-> norm(kept[j].text), x |-> kept[j].x]]

\* The pages of an n-page template for which the builders call
\* compose_watermark_page: wm_cfg and (wm_pages_all or (i+1) in wm_pages_set)
LayeredPages(wm_cfg, n) ==
    {k \in 1..n : Truthy(wm_cfg) /\ (PageSelection(wm_cfg)[1] \/ k \in PageSelection(wm_cfg)[2])}

\* An empty configuration object: "if wm_cfg" is false for it.
EmptyCfg == [state |-> "empty"]

PageEntries ==
    {PInt(0), PInt(1), PInt(2), PInt(MaxPages + 1), PFloat(27),
     PStr(<<"2">>), PStr(<<"x">>)}

\* The values of "pages": absent, a string, or a list of 0..MaxListLen entries.
PagesValues ==
    {[kind |-> "absent", str |-> << >>, list |-> << >>]}
    \cup {[kind |-> "str", str |-> t, list |-> << >>] :
             t \in { <<"a","l","l">>, <<"A","l","L">>, <<"1">>, <<"a","l","l"," ">> }}
    \cup {[kind |-> "list", str |-> << >>, list |-> l] :
             l \in UNION {[1..m -> PageEntries] : m \in 0..MaxListLen}}

ItemTexts == { <<"w","m">>, <<" ">>, << >> }

\* The values of "items": up to two items, each at its own x.
ItemLists ==
    UNION {{[j \in 1..m |-> [text |-> t[j], x |-> 10 * j]] : t \in [1..m -> ItemTexts]} : m \in 0..2}

InitSelect ==
    /\ Idle
    /\ \E n \in 1..MaxPages :
          \/ \E c \in {NotGiven, EmptyCfg} :
                fit = [wm_cfg |-> c, n |-> n, layered |-> {}, drawn |-> << >>, done |-> FALSE]
          \/ \E pv \in PagesValues, items \in ItemLists :
                fit = [wm_cfg |-> Loaded([pages_kind |-> pv.kind, pages_str |-> pv.str,
                                          pages_list |-> pv.list, bad_item |-> FALSE,
                                          items |-> items]),
                       n |-> n, layered |-> {}, drawn |-> << >>, done |-> FALSE]

\* The page loop of a builder over an n-page template, and the item loop of
\* the layers it composes.
SelectCall ==
    /\ ~fit.done
    /\ fit' = [fit EXCEPT
                  !.layered = LayeredPages(fit.wm_cfg, fit.n),
                  !.drawn = IF Truthy(fit.wm_cfg) THEN WmItemsDrawn(fit.wm_cfg.value.items)
                            ELSE << >>,
                  !.done = TRUE]
    /\ UNCHANGED <<args, cfg, fs, pc, loc, stdout, hist>>

NextSelect == SelectCall

SpecSelect == InitSelect /\ [][NextSelect]_vars

\* "pages" is the string "all" in any case of letters.
PagesIsAll == fit.wm_cfg.value.pages_kind = "str" /\ lower(fit.wm_cfg.value.pages_str) = <<"a","l","l">>

\* Within a layer every item with a non-empty text is drawn exactly once
\* and an item with an empty text is not drawn.
ItemsDrawnOnce ==
    Truthy(fit.wm_cfg) =>
        \A j \in 1..Len(fit.wm_cfg.value.items) :
            LET it == fit.wm_cfg.value.items[j] IN
            Cardinality({d \in 1..Len(fit.drawn) : fit.drawn[d].x = it.x}) =
                IF norm(it.text) # << >> THEN 1 ELSE 0

\* C26: page i of the template gets a watermark layer if and only if a
\* non-empty watermark config is given and either "pages" is the string
\* "all" in any case or "pages" is a list containing i; page numbers
\* outside 1..N select nothing; within a layer every item with non-empty
\* text is drawn exactly once and items with empty text are skipped.
C26_PageSelection ==
    fit.done =>
        /\ fit.layered \subseteq 1..fit.n
        /\ \A k \in 1..fit.n :
              k \in fit.layered <=>
                 /\ Truthy(fit.wm_cfg)
                 /\ \/ PagesIsAll
                    \/ /\ fit.wm_cfg.value.pages_kind = "list"
                       /\ PInt(k) \in SeqSet(fit.wm_cfg.value.pages_list)
        /\ ItemsDrawnOnce

\* C26 as the code has it: the list selects page i when int() converts
\* every one of its entries and converts one of them to i (a float is cut
\* to its integer part, a string of digits is read as a number); a list
\* with an entry int() rejects selects no page at all.
C26_PageSelectionByInt ==
    fit.done =>
        /\ fit.layered \subseteq 1..fit.n
        /\ \A k \in 1..fit.n :
              k \in fit.layered <=>
                 /\ Truthy(fit.wm_cfg)
                 /\ \/ PagesIsAll
                    \/ /\ fit.wm_cfg.value.pages_kind = "list"
                       /\ \A j \in 1..Len(fit.wm_cfg.value.pages_list) :
                             IntOf(fit.wm_cfg.value.pages_list[j]).ok
                       /\ \E j \in 1..Len(fit.wm_cfg.value.pages_list) :
                             IntOf(fit.wm_cfg.value.pages_list[j]).n = k
        /\ ItemsDrawnOnce

\* A list holding page 1 and an entry that is no number: no page is
\* layered; and of two items the one with a text is drawn.
C26_Witness ==
    /\ fit.done
    /\ fit.n = 2
    /\ fit.wm_cfg.state = "ok"
    /\ fit.wm_cfg.value.pages_list = <<PInt(1), PStr(<<"x">>)>>
    /\ fit.layered = {}
    /\ Len(fit.wm_cfg.value.items) = 2
    /\ Len(fit.drawn) = 1


\* ------------------------------------------------------------------ the two wrap routines side by side

WrapEqChars == {"a", " ", "\n", "\t"}

\* Texts of up to MaxWrapLen characters, a tab among them.
WrapEqTexts == UNION {[1..n -> WrapEqChars] : n \in 0..MaxWrapLen}

\* Both routines are given the measure "half the size per character": a
\* text fits when Len * size <= 2 * max_w.
InitWrapEq ==
    /\ Idle
    /\ \E t \in WrapEqTexts, max_w \in {0, 5, 10, 20}, size \in {10} :
          fit = [text |-> t, max_w |-> max_w, size |-> size,
                 vec |-> << >>, pil |-> << >>, done |-> FALSE]

\* The wrap loop of draw_multiline_fit_vec and _wrap_lines on the same text
WrapEqCall ==
    /\ ~fit.done
    /\ fit' = [fit EXCEPT !.vec = VecWrap(fit.text, fit.size, fit.max_w),
                          !.pil = _wrap_lines(fit.text, fit.size, fit.max_w),
                          !.done = TRUE]
    /\ UNCHANGED <<args, cfg, fs, pc, loc, stdout, hist>>

NextWrapEq == WrapEqCall

SpecWrapEq == InitWrapEq /\ [][NextWrapEq]_vars

\* C27: _wrap_lines and the wrap loop inside draw_multiline_fit_vec, given
\* the same text, width limit and width measure, produce the identical
\* list of lines, including for a single word wider than the limit.
C27_SameWrap == fit.done => fit.vec = fit.pil

\* The same for texts without a tab.
SameWrapWithoutTabs ==
    (fit.done /\ \A j \in 1..Len(fit.text) : fit.text[j] # "\t") => fit.vec = fit.pil


\* ------------------------------------------------------------------ two runs at once

\* An access of a run to a render-layer file or a bitmap.
Access(op, path) == [op |-> op, path |-> path]

\* The watermark-layer accesses of a builder: for each page selected, in
\* page order, compose_watermark_page writes the layer and PdfReader reads it.
RECURSIVE LayerAccesses(_, _, _)
LayerAccesses(base, pages, k) ==
    IF k > MaxPages THEN << >>
    ELSE (IF k \in pages
          THEN <<Access("write", WmPath(base, k)), Access("read", WmPath(base, k))>>
          ELSE << >>)
         \o LayerAccesses(base, pages, k + 1)

\* The layer files a builder returns as temps, in page order.
RECURSIVE LayerTemps(_, _, _)
LayerTemps(base, pages, k) ==
    IF k > MaxPages THEN << >>
    ELSE (IF k \in pages THEN <<WmPath(base, k)>> ELSE << >>) \o LayerTemps(base, pages, k + 1)

\* The accesses of main() to its temporary artifacts, in program order, for
\* the run numbered id: in full mode the bitmap of an aggressive overlay
\* (a fresh name of the system's temporary directory), the overlay, the
\* layers named after the overlay, and the cleanup; in bypass mode the
\* layers named after the template, and the cleanup.
RunAccesses(a, id) ==
    IF a.w9bp
    THEN LayerAccesses(a.template, a.wm_pages, 1)
         \o [j \in 1..Len(CleanupList(TRUE, a.clean, LayerTemps(a.template, a.wm_pages, 1))) |->
               Access("remove", CleanupList(TRUE, a.clean, LayerTemps(a.template, a.wm_pages, 1))[j])]
    ELSE LET overlay == OverlayPath(a.output)
             temps == <<overlay>> \o LayerTemps(overlay, a.wm_pages, 1)
             queue == CleanupList(FALSE, a.clean, temps)
         IN  (IF a.fontwarp_aggressive
              THEN <<Access("write", _tmp_png_path(id)), Access("read", _tmp_png_path(id))>>
              ELSE << >>)
             \o <<Access("write", overlay)>>
             \o LayerAccesses(overlay, a.wm_pages \cap {1}, 1)
             \o <<Access("read", overlay)>>
             \o LayerAccesses(overlay, a.wm_pages \ {1}, 1)
             \o [j \in 1..Len(queue) |-> Access("remove", queue[j])]

PairOutputs == { Path(".", <<"a", "pdf">>), Path(".", <<"b", "pdf">>), Path(".", <<"a", "PDF">>) }

PairArgs ==
    [template : {TemplatePath}, output : PairOutputs, w9bp : BOOLEAN,
     fontwarp_aggressive : BOOLEAN, clean : BOOLEAN, wm_pages : {{}, {1}, {1, 2}}]

\* Two runs started with different output names on the same template.
InitPair ==
    /\ Idle
    /\ \E a1 \in PairArgs, a2 \in PairArgs :
          /\ a1.output # a2.output
          /\ a1.w9bp => ~a1.fontwarp_aggressive
          /\ a2.w9bp => ~a2.fontwarp_aggressive
          /\ a1.clean = a2.clean
          /\ fit = [runs |-> <<a1, a2>>,
                    todo |-> <<RunAccesses(a1, 1), RunAccesses(a2, 2)>>,
                    touched |-> <<{}, {}>>]

\* One of the two runs makes its next access.
PairStep ==
    /\ \E i \in 1..2 :
          /\ fit.todo[i] # << >>
          /\ fit' = [fit EXCEPT !.todo[i] = Tail(@),
                                !.touched[i] = @ \cup {Head(fit.todo[i]).path}]
    /\ UNCHANGED <<args, cfg, fs, pc, loc, stdout, hist>>

NextPair == PairStep

SpecPair == InitPair /\ [][NextPair]_vars

\* C28: two runs that execute concurrently with different output filenames
\* never write, read or delete the same temporary artifact path (overlay
\* file, watermark-layer files, rasterized images), in full mode and in
\* bypass mode, also when both runs use the same template.
C28_DisjointArtifacts == fit.touched[1] \cap fit.touched[2] = {}

\* The same for two full-mode runs whose output names differ before the
\* extension.
DisjointArtifactsInFullMode ==
    (/\ ~fit.runs[1].w9bp /\ ~fit.runs[2].w9bp
     /\ splitext0(fit.runs[1].output) # splitext0(fit.runs[2].output))
    => C28_DisjointArtifacts


\* ------------------------------------------------------------------ compose_watermark_page, turn by turn

\* No configuration with positive steps needs more turns of the inner loop
\* than a page has whole points; the model follows a call no further.
MaxTurns == MaxTileDim * MaxTileDim

\* A call of compose_watermark_page with 0..2 items and a tile with a text,
\* on a page of w by h points: offsets inside the page, steps of -1, 0 or
\* 1..MaxTileStep points.
InitLoop ==
    /\ Idle
    /\ \E w \in 1..MaxTileDim, h \in 1..MaxTileDim, n \in 0..2,
          xs \in -1..MaxTileStep, ys \in -1..MaxTileStep :
          fit = [w |-> w, h |-> h, items |-> n, xs |-> xs, ys |-> ys, x0 |-> 0, y0 |-> 0,
                 at |-> "items", k |-> 0, x |-> 0, y |-> 0, turns |-> 0]

\* for it in (wm_cfg.get("items") or []): one item
Loop_Item ==
    /\ fit.at = "items"
    /\ fit.k < fit.items
    /\ fit' = [fit EXCEPT !.k = @ + 1]
    /\ UNCHANGED <<args, cfg, fs, pc, loc, stdout, hist>>

\* The item loop is over: y = y0
Loop_TileBegin ==
    /\ fit.at = "items"
    /\ fit.k = fit.items
    /\ fit' = [fit EXCEPT !.at = "outer", !.y = fit.y0]
    /\ UNCHANGED <<args, cfg, fs, pc, loc, stdout, hist>>

\* while y < h: x = x0; otherwise c.showPage(); c.save()
Loop_Outer ==
    /\ fit.at = "outer"
    /\ fit' = IF fit.y < fit.h THEN [fit EXCEPT !.at = "inner", !.x = fit.x0]
              ELSE [fit EXCEPT !.at = "done"]
    /\ UNCHANGED <<args, cfg, fs, pc, loc, stdout, hist>>

\* while x < w: draw; x += xs
Loop_Inner ==
    /\ fit.at = "inner"
    /\ fit.x < fit.w
    /\ fit.turns < MaxTurns
    /\ fit' = [fit EXCEPT !.x = @ + fit.xs, !.turns = @ + 1]
    /\ UNCHANGED <<args, cfg, fs, pc, loc, stdout, hist>>

\* The inner loop is over: y += ys
Loop_InnerEnd ==
    /\ fit.at = "inner"
    /\ ~(fit.x < fit.w)
    /\ fit' = [fit EXCEPT !.y = @ + fit.ys, !.at = "outer"]
    /\ UNCHANGED <<args, cfg, fs, pc, loc, stdout, hist>>

NextLoop == Loop_Item \/ Loop_TileBegin \/ Loop_Outer \/ Loop_Inner \/ Loop_InnerEnd

SpecLoop == InitLoop /\ [][NextLoop]_vars

\* A turn of a tiling loop moves its coordinate towards the page edge it
\* is tested against.
TurnAdvances ==
    /\ (fit.at = "inner" /\ fit'.at = "inner") => fit'.x > fit.x
    /\ (fit.at = "inner" /\ fit'.at = "outer") => fit'.y > fit.y

\* C29: compose_watermark_page terminates for every watermark config with
\* numeric fields: the item loop and the two nested tiling loops finish for
\* every page size, offsets and x_step / y_step, zero and negative steps
\* included.  Each loop has one exit, its test against the page edge, so it
\* finishes exactly when every turn moves its coordinate towards that edge.
C29_LoopsTerminate == [][TurnAdvances]_vars

\* The same for positive steps, and such a call is never left unfinished.
LoopsTerminateForPositiveSteps ==
    /\ [][(fit.xs > 0 /\ fit.ys > 0) => TurnAdvances]_vars
    /\ []((fit.xs > 0 /\ fit.ys > 0) => (fit.at = "done" \/ ENABLED NextLoop))


\* ------------------------------------------------------------------ properties of a run: the dates

\* C30: in every written output the XMP packet's CreateDate and ModifyDate
\* are equal to each other and denote the same UTC second as the document
\* info /CreationDate and /ModDate stamped by finalize_info in the same
\* run, for every advance of the clock between the two calls.
C30_DatesAgree ==
    OutputWritten =>
        LET out == fs[args.output] IN
        /\ out.xmp["CreateDate"] = out.xmp["ModifyDate"]
        /\ out.info["/CreationDate"] = out.info["/ModDate"]
        /\ \E t \in 0..(MaxClock + MaxTick) :
              /\ out.info["/CreationDate"] = pdf_date_now(t)
              /\ out.xmp["CreateDate"] = now_iso_utc(t)

\* Within each of the two records the dates are equal, and the XMP dates
\* are those of the info or later by the time between the two calls.
DatesAgreeUpToTheTick ==
    OutputWritten =>
        LET out == fs[args.output] IN
        /\ out.xmp["CreateDate"] = out.xmp["ModifyDate"]
        /\ out.info["/CreationDate"] = out.info["/ModDate"]
        /\ \E t \in 0..MaxClock, tick \in 0..MaxTick :
              /\ out.info["/CreationDate"] = pdf_date_now(t)
              /\ out.xmp["CreateDate"] = now_iso_utc(t + tick)

====
